---- MODULE Spec2Model ----
(***************************************************************************)
(* ThreeJSScene: the scene orchestrator of the repository.  One instance   *)
(* builds a scene from a configuration record, runs a per-frame update on  *)
(* requestAnimationFrame, reacts to window resize events, loads a brain    *)
(* model asynchronously and is torn down by dispose() / rebuilt by         *)
(* updateConfig().                                                         *)
(*                                                                         *)
(* Objects of the graphics library are cells of a heap, identified by the  *)
(* order of their creation; 0 is null.  Methods of the class are operators *)
(* from a state record to a state record, so that one action is one whole  *)
(* call (constructor, updateConfig, dispose, one frame, one resize event,  *)
(* one load callback).                                                     *)
(*                                                                         *)
(* Numbers that the code computes with (rotation angles, speeds, arc       *)
(* lengths) are IEEE-754 doubles, held exactly.                            *)
(***************************************************************************)
EXTENDS Integers, Sequences, FiniteSets, TLC

\* ---------------------------------------------------------------- bounds
MaxEvents == 3          \* calls and events after the construction in a run
MaxFrames == 6          \* frames after the construction in a run of SpecBuild

Null == 0
Root == -1              \* the container element (#app) or document.body

\* ------------------------------------------------ JavaScript numbers
\* An IEEE-754 double is [m, e] with value m * 2^e, where m has exactly
\* Precision bits (or is zero); m is held as NDigits digits in base Base,
\* least significant first.  The digits of a negative number are the
\* negated digits of its magnitude; zero is held without a sign.
Base == 8192
NDigits == 9
Precision == 53

BigZero == [i \in 1..NDigits |-> 0]

RECURSIVE Carry(_, _, _)
Carry(v, i, c) ==
  IF i > NDigits THEN v
  ELSE Carry([v EXCEPT ![i] = (v[i] + c) % Base], i + 1, (v[i] + c) \div Base)

AddBig(a, b) == Carry([i \in 1..NDigits |-> a[i] + b[i]], 1, 0)

MulBig(a, b) ==
  LET term(k, i) == IF k + 1 - i \in 1..5 THEN a[i] * b[k + 1 - i] ELSE 0
  IN Carry([k \in 1..NDigits |->
              term(k, 1) + term(k, 2) + term(k, 3) + term(k, 4) + term(k, 5)],
           1, 0)

Bit(a, j) == (a[j \div 13 + 1] \div 2^(j % 13)) % 2

\* number of bits of a (0 for zero)
BitLen(a) ==
  IF a = BigZero THEN 0
  ELSE LET h == CHOOSE i \in 1..NDigits :
                  a[i] # 0 /\ \A k \in (i + 1)..NDigits : a[k] = 0
       IN 13 * (h - 1) + CHOOSE n \in 1..13 : 2^(n - 1) <= a[h] /\ a[h] < 2^n

Digit(a, i) == IF i \in 1..NDigits THEN a[i] ELSE 0

ShiftLeft(a, n) ==
  LET q == n \div 13
      r == n % 13
  IN [i \in 1..NDigits |->
        (Digit(a, i - q) % 2^(13 - r)) * 2^r + Digit(a, i - q - 1) \div 2^(13 - r)]

ShiftRight(a, n) ==
  LET q == n \div 13
      r == n % 13
  IN [i \in 1..NDigits |->
        Digit(a, i + q) \div 2^r + (Digit(a, i + q + 1) % 2^r) * 2^(13 - r)]

One == [i \in 1..NDigits |-> IF i = 1 THEN 1 ELSE 0]

\* round to nearest, ties to even, to Precision bits
Round(M, e) ==
  LET len == BitLen(M)
      k == len - Precision
  IN IF len = 0 THEN [m |-> BigZero, e |-> 0]
     ELSE IF k <= 0 THEN [m |-> ShiftLeft(M, 0 - k), e |-> e + k]
     ELSE
       LET q == ShiftRight(M, k)
           up == /\ Bit(M, k - 1) = 1
                 /\ \/ \E j \in 0..(k - 2) : Bit(M, j) = 1
                    \/ Bit(q, 0) = 1
           q1 == IF up THEN AddBig(q, One) ELSE q
       IN IF BitLen(q1) > Precision
          THEN [m |-> ShiftRight(q1, 1), e |-> e + k + 1]
          ELSE [m |-> q1, e |-> e + k]

FZero == [m |-> BigZero, e |-> 0]

\* -x
Minus(x) == [m |-> [i \in 1..NDigits |-> 0 - x.m[i]], e |-> x.e]

Negative(x) == \E i \in 1..NDigits : x.m[i] < 0

Magnitude(x) == IF Negative(x) THEN Minus(x) ELSE x

\* a - b for a >= b >= 0: the carry of a negative digit is the borrow
SubBig(a, b) == Carry([i \in 1..NDigits |-> a[i] - b[i]], 1, 0)

LessBig(a, b) ==
  \E i \in 1..NDigits : a[i] < b[i] /\ \A k \in (i + 1)..NDigits : a[k] = b[k]

Signed(x, negative) == IF negative THEN Minus(x) ELSE x

\* the sum of two numbers of magnitudes H * 2^e and L * 2^e
AddSigned(H, L, hneg, lneg, e) ==
  Signed(Round(IF hneg = lneg THEN AddBig(H, L)
               ELSE IF LessBig(H, L) THEN SubBig(L, H)
               ELSE SubBig(H, L), e),
         IF hneg = lneg \/ ~LessBig(H, L) THEN hneg ELSE lneg)

\* hi + lo where hi has the larger exponent
AddAligned(hi, lo) ==
  IF hi.e - lo.e > Precision + 2 THEN hi
  ELSE AddSigned(ShiftLeft(Magnitude(hi).m, hi.e - lo.e), Magnitude(lo).m,
                 Negative(hi), Negative(lo), lo.e)

\* NaN, the product of a number and undefined
NaN == [m |-> BigZero, e |-> 0, nan |-> TRUE]

IsNaN(x) == "nan" \in DOMAIN x

\* x + y
FAdd(x, y) ==
  IF IsNaN(x) \/ IsNaN(y) THEN NaN
  ELSE IF x.m = BigZero THEN y
  ELSE IF y.m = BigZero THEN x
  ELSE IF x.e >= y.e THEN AddAligned(x, y)
  ELSE AddAligned(y, x)

\* x * y
FMul(x, y) ==
  IF IsNaN(x) \/ IsNaN(y) THEN NaN
  ELSE IF x.m = BigZero \/ y.m = BigZero THEN FZero
  ELSE Signed(Round(MulBig(Magnitude(x).m, Magnitude(y).m), x.e + y.e),
              Negative(x) # Negative(y))

\* x / 2 (exact: only the exponent changes)
FHalf(x) == IF x.m = BigZero THEN x ELSE [x EXCEPT !.e = @ - 1]

\* the double of a small non-negative integer
FInt(n) == Round([i \in 1..NDigits |-> IF i = 1 THEN n ELSE 0], 0)

\* the doubles of the literals 0.002, 0.005, 1.0 and 2.0, and of Math.PI
F0_002 == [m |-> <<2556, 6029, 4980, 196, 1, 0, 0, 0, 0>>, e |-> -61]
F0_005 == [m |-> <<5243, 7536, 6225, 2293, 1, 0, 0, 0, 0>>, e |-> -60]
F1_0 == [m |-> <<0, 0, 0, 0, 1, 0, 0, 0, 0>>, e |-> -52]
F2_0 == [m |-> <<0, 0, 0, 0, 1, 0, 0, 0, 0>>, e |-> -51]
FPi == [m |-> <<3352, 545, 7893, 4675, 1, 0, 0, 0, 0>>, e |-> -51]

\* the angles of the authored fallback brain
F0_12 == [m |-> <<7864, 7208, 5242, 7536, 1, 0, 0, 0, 0>>, e |-> -56]
F0_15 == [m |-> <<4915, 6553, 3276, 1638, 1, 0, 0, 0, 0>>, e |-> -55]
F0_2 == [m |-> <<6554, 3276, 1638, 4915, 1, 0, 0, 0, 0>>, e |-> -55]
F0_25 == [m |-> <<0, 0, 0, 0, 1, 0, 0, 0, 0>>, e |-> -54]
F0_3 == [m |-> <<4915, 6553, 3276, 1638, 1, 0, 0, 0, 0>>, e |-> -54]
F0_35 == [m |-> <<1638, 4915, 6553, 3276, 1, 0, 0, 0, 0>>, e |-> -54]
F0_4 == [m |-> <<6554, 3276, 1638, 4915, 1, 0, 0, 0, 0>>, e |-> -54]
F0_5 == [m |-> <<0, 0, 0, 0, 1, 0, 0, 0, 0>>, e |-> -53]

\* ------------------------------------------------------------ heap cells
\* kids are the children of an Object3D in the order of add()
Obj(kind, by) ==
  [kind |-> kind, tag |-> "", by |-> by, disposed |-> 0, kids |-> <<>>,
   geo |-> Null, mats |-> <<>>, maps |-> {}, rot |-> <<FZero, FZero, FZero>>,
   dims |-> <<0, 0>>, draws |-> 0, projs |-> 0, args |-> <<>>]

\* window.innerWidth / window.innerHeight before and after a resize
WindowSizes == <<<<1024, 768>>, <<1600, 900>>>>

\* ------------------------------------------------------- configurations
\* A configuration is a record with the keys of the JavaScript object the
\* methods read; a key that is missing reads as undefined.
Has(r, k) == k \in DOMAIN r

Undefined == "undefined"

Get(r, k) == IF k \in DOMAIN r THEN r[k] ELSE Undefined

\* JavaScript truthiness of section.enabled: a missing key is undefined
Enabled(section) == "enabled" \in DOMAIN section /\ section.enabled

\* truthiness of a boolean key
Truthy(r, k) == k \in DOMAIN r /\ r[k]

LightKinds == <<"ambient", "directional", "hemisphere", "point", "spot">>

Position(x, y, z) == [x |-> x, y |-> y, z |-> z]

\* camera.perspective of config.js
PerspectiveSection == [fov |-> 75, near |-> 1, far |-> 10000]

\* camera.orthographic of config.js
OrthographicBounds ==
  [left |-> -1000, right |-> 1000, top |-> 1000, bottom |-> -1000,
   near |-> 1, far |-> 10000]

\* bounds of no width: the camera falls back to half the window width
FlatBounds ==
  [left |-> 0, right |-> 0, top |-> 1000, bottom |-> -1000,
   near |-> 1, far |-> 10000]

\* the camera section of config.js with the given enabled, type and
\* orthographic bounds
Camera(enabled, type, bounds) ==
  [enabled |-> enabled, type |-> type, perspective |-> PerspectiveSection,
   orthographic |-> bounds, position |-> Position(0, 50, 800),
   rotation |-> <<FZero, FZero, FZero>>]

\* the length of geometry.brain.regions in app/js/config.js
NumRegions == 13

\* the parameter sections of geometry in app/js/config.js; numbers are
\* handed to the constructors as they are; the angles are Math.PI * 2 and
\* Math.PI, and brain.regions stands for the list of the thirteen regions
GeometryParams ==
  [torusKnot   |-> [radius |-> 200, tube |-> 60, tubularSegments |-> 100,
                    radialSegments |-> 16, p |-> 2, q |-> 3],
   box         |-> [width |-> 200, height |-> 200, depth |-> 200,
                    widthSegments |-> 1, heightSegments |-> 1,
                    depthSegments |-> 1],
   sphere      |-> [radius |-> 100, widthSegments |-> 32,
                    heightSegments |-> 16, phiStart |-> 0,
                    phiLength |-> FMul(FPi, F2_0), thetaStart |-> 0,
                    thetaLength |-> FPi],
   torus       |-> [radius |-> 100, tube |-> 40, radialSegments |-> 16,
                    tubularSegments |-> 100, arc |-> FMul(FPi, F2_0)],
   octahedron  |-> [radius |-> 100, detail |-> 0],
   tetrahedron |-> [radius |-> 100, detail |-> 0],
   icosahedron |-> [radius |-> 100, detail |-> 0],
   brain       |-> [showLabels |-> TRUE, regions |-> NumRegions]]

\* a geometry section: type and enabled next to the parameter sections
Geometry(type, enabled, params) ==
  [k \in {"type", "enabled"} \cup DOMAIN params |->
     IF k = "type" THEN type ELSE IF k = "enabled" THEN enabled ELSE params[k]]

\* material of config.js: the keys createMaterial's control flow reads
MaterialSection ==
  [enabled |-> TRUE,
   texture |-> [enabled |-> TRUE, url |-> "url",
                repeat |-> [x |-> 1, y |-> 1], offset |-> [x |-> 0, y |-> 0]]]

\* lighting of config.js: ambient, directional and spot lights enabled
LightingSection ==
  [enabled     |-> TRUE,
   ambient     |-> [enabled |-> TRUE],
   directional |-> [enabled |-> TRUE, position |-> Position(100, 100, 100),
                    castShadow |-> TRUE],
   hemisphere  |-> [enabled |-> FALSE, position |-> Position(0, 1, 0)],
   point       |-> [enabled |-> FALSE, position |-> Position(0, 0, 0),
                    castShadow |-> FALSE],
   spot        |-> [enabled |-> TRUE, position |-> Position(0, 0, 0),
                    target |-> Position(0, 0, 0), castShadow |-> TRUE,
                    shadow |-> [mapSize |-> [width |-> 1024, height |-> 1024],
                                camera |-> [near |-> 500, far |-> 4000,
                                            fov |-> 30]]]]

\* renderer of config.js
RendererSection ==
  [enabled |-> TRUE, shadowMap |-> [enabled |-> TRUE, type |-> "pcf"]]

\* scene of config.js: no background, fog disabled
SceneSection ==
  [background |-> "none", fog |-> [enabled |-> FALSE, type |-> "linear"]]

\* app/js/config.js (type 'brain', three lights, textured basic material)
DefaultConfig ==
  [geometry  |-> Geometry("brain", TRUE, GeometryParams),
   material  |-> MaterialSection,
   camera    |-> Camera(TRUE, "perspective", OrthographicBounds),
   lighting  |-> LightingSection,
   renderer  |-> RendererSection,
   animation |-> [enabled |-> TRUE, autoRotate |-> TRUE,
                  rotation |-> <<F0_002, F0_005, FZero>>, speed |-> F1_0],
   scene     |-> SceneSection]

\* the configuration of the test suite: a torus knot instead of the brain
TorusKnotConfig ==
  [DefaultConfig EXCEPT !.geometry = Geometry("torusKnot", TRUE, GeometryParams)]

\* a scene with a texture background, an orthographic camera, no animation
StillConfig ==
  [TorusKnotConfig EXCEPT !.scene.background = "url",
                          !.camera = Camera(TRUE, "orthographic", FlatBounds),
                          !.animation = [enabled |-> FALSE, autoRotate |-> FALSE,
                                         rotation |-> <<FZero, FZero, FZero>>,
                                         speed |-> F1_0]]

\* a configuration without renderer, camera and lights
BareConfig ==
  [DefaultConfig EXCEPT !.renderer.enabled = FALSE,
                        !.camera = Camera(FALSE, "perspective", OrthographicBounds),
                        !.lighting.enabled = FALSE,
                        !.geometry =
                          Geometry("brain", TRUE,
                                   [GeometryParams EXCEPT
                                      !.brain = [showLabels |-> FALSE,
                                                 regions |-> NumRegions]])]

\* the test suite's configuration without a camera, and without a renderer
NoCameraConfig ==
  [TorusKnotConfig EXCEPT
     !.camera = Camera(FALSE, "perspective", OrthographicBounds)]

NoRendererConfig == [TorusKnotConfig EXCEPT !.renderer.enabled = FALSE]

InitConfigs ==
  {DefaultConfig, StillConfig, BareConfig, NoCameraConfig, NoRendererConfig}

\* parameter sections with pairwise different numbers per type
CustomParams ==
  [torusKnot   |-> [radius |-> 10, tube |-> 3, tubularSegments |-> 64,
                    radialSegments |-> 8, p |-> 5, q |-> 7],
   box         |-> [width |-> 10, height |-> 20, depth |-> 30,
                    widthSegments |-> 1, heightSegments |-> 2,
                    depthSegments |-> 3],
   sphere      |-> [radius |-> 50, widthSegments |-> 24,
                    heightSegments |-> 12, phiStart |-> 1,
                    phiLength |-> FPi, thetaStart |-> 2,
                    thetaLength |-> FHalf(FPi)],
   torus       |-> [radius |-> 80, tube |-> 20, radialSegments |-> 12,
                    tubularSegments |-> 48, arc |-> FPi],
   octahedron  |-> [radius |-> 40, detail |-> 1],
   tetrahedron |-> [radius |-> 30, detail |-> 2],
   icosahedron |-> [radius |-> 20, detail |-> 3],
   brain       |-> [showLabels |-> TRUE, regions |-> NumRegions]]

\* configurations for the construction of one instance: every primitive
\* type with both parameter sets, an unrecognised type, geometry disabled,
\* auto-rotation off, double speed, and those of InitConfigs
BuildConfigs ==
  {[DefaultConfig EXCEPT !.geometry = Geometry(type, TRUE, params)] :
     type \in {"torusKnot", "box", "sphere", "torus", "octahedron",
               "tetrahedron", "icosahedron", "cube"},
     params \in {GeometryParams, CustomParams}}
  \cup {[DefaultConfig EXCEPT !.geometry = Geometry("box", FALSE, GeometryParams)],
        [TorusKnotConfig EXCEPT !.animation.autoRotate = FALSE],
        [TorusKnotConfig EXCEPT !.animation.speed = F2_0],
        [BareConfig EXCEPT !.geometry = Geometry("cube", TRUE, GeometryParams)]}
  \cup InitConfigs

\* partial configurations handed to updateConfig; a section given without
\* all its keys replaces the whole section (shallow merge), so the rebuild
\* reads an undefined key
Patches ==
  { [geometry |-> DefaultConfig.geometry],
    [geometry |-> TorusKnotConfig.geometry],
    [geometry |-> [type |-> "sphere"]],
    [renderer |-> BareConfig.renderer, camera |-> BareConfig.camera],
    [animation |-> [speed |-> F2_0]],
    [scene |-> [background |-> "none"]],
    [camera |-> [enabled |-> TRUE, type |-> "perspective"]],
    [camera |-> [enabled |-> TRUE, type |-> "orthographic"]] }

\* the revisions of the class under src/
Revisions == {"main.js", "part_000", "part_001", "part_002"}

\* the revisions whose constructor sets this.loadingVersion, and those
\* whose stale success callback disposes the loaded model
Versioned(r) == r \in {"part_000", "part_001", "part_002"}
DisposesStale(r) == r \in {"part_001", "part_002"}

VARIABLES
  rev,             \* which revision of the class runs
  config, scene, camera, renderer, labelRenderer, lights, mesh, brainGroup,
  labels, animationId, loadingVersion, resizeHandler,   \* fields of this
  heap, nextId,    \* library objects created so far
  dom,             \* attached DOM elements: element |-> parent
  listeners,       \* 'resize' listeners registered on window
  rafPending, nextRaf,   \* requestAnimationFrame callbacks not yet run
  loads, nextLoad, \* GLTF load requests whose callback has not fired
  win,             \* index into WindowSizes
  threw,           \* a call raised a TypeError
  pc,              \* lifecycle: uninitialized, running, disposed
  lastOp,          \* the last call or event
  fired,           \* the load request whose callback ran last
  epoch,           \* nextId when the last constructor / updateConfig began
  nEvents          \* calls and events since the construction

vars == <<rev, config, scene, camera, renderer, labelRenderer, lights, mesh,
          brainGroup, labels, animationId, loadingVersion, resizeHandler,
          heap, nextId, dom, listeners, rafPending, nextRaf, loads, nextLoad,
          win, threw, pc, lastOp, fired, epoch, nEvents>>

\* the state as one record, threaded through the methods
Cur ==
  [rev |-> rev, config |-> config, scene |-> scene, camera |-> camera,
   renderer |-> renderer, labelRenderer |-> labelRenderer, lights |-> lights,
   mesh |-> mesh, brainGroup |-> brainGroup, labels |-> labels,
   animationId |-> animationId, loadingVersion |-> loadingVersion,
   resizeHandler |-> resizeHandler, heap |-> heap, nextId |-> nextId,
   dom |-> dom, listeners |-> listeners, rafPending |-> rafPending,
   nextRaf |-> nextRaf, loads |-> loads, nextLoad |-> nextLoad, win |-> win,
   threw |-> threw]

Commit(s) ==
  /\ config' = s.config /\ scene' = s.scene /\ camera' = s.camera
  /\ renderer' = s.renderer /\ labelRenderer' = s.labelRenderer
  /\ lights' = s.lights /\ mesh' = s.mesh /\ brainGroup' = s.brainGroup
  /\ labels' = s.labels /\ animationId' = s.animationId
  /\ loadingVersion' = s.loadingVersion /\ resizeHandler' = s.resizeHandler
  /\ heap' = s.heap /\ nextId' = s.nextId /\ dom' = s.dom
  /\ listeners' = s.listeners /\ rafPending' = s.rafPending
  /\ nextRaf' = s.nextRaf /\ loads' = s.loads /\ nextLoad' = s.nextLoad
  /\ win' = s.win /\ threw' = s.threw
  /\ rev' = rev

\* ------------------------------------------------------ library helpers
\* a TypeError: the rest of the running call is skipped
Throw(s) == [s EXCEPT !.threw = TRUE]

\* new X(...): the new object gets the next identity
Alloc(s, o) ==
  [s EXCEPT !.heap = @ @@ (s.nextId :> o), !.nextId = @ + 1]

\* parent.add(child)
Add(s, parent, child) ==
  IF parent = Null THEN Throw(s)
  ELSE [s EXCEPT !.heap[parent].kids = Append(@, child)]

\* the children of x as a set
Kids(h, x) == {h[x].kids[i] : i \in DOMAIN h[x].kids}

\* x.dispose()
DisposeObj(s, x) ==
  IF x = Null THEN Throw(s)
  ELSE [s EXCEPT !.heap[x].disposed = @ + 1]

\* xs.forEach((x) => x.dispose()): the objects before the first null are
\* disposed, one that occurs n times n times; the null throws
DisposeSeq(s, xs) ==
  LET nulls == {i \in DOMAIN xs : xs[i] = Null}
      stop == IF nulls = {} THEN Len(xs) + 1
              ELSE CHOOSE i \in nulls : \A j \in nulls : i <= j
      done == {xs[i] : i \in 1..(stop - 1)}
  IN IF s.threw THEN s
     ELSE [s EXCEPT
             !.threw = nulls # {},
             !.heap = [x \in DOMAIN @ |->
                         IF x \in done
                         THEN [@[x] EXCEPT !.disposed =
                                 @ + Cardinality({i \in 1..(stop - 1) : xs[i] = x})]
                         ELSE @[x]]]

\* the concatenation of a sequence of sequences
RECURSIVE Flatten(_)
Flatten(ss) == IF ss = <<>> THEN <<>> ELSE Head(ss) \o Flatten(Tail(ss))

\* object.traverse: the object, then the traversal of each child in the
\* order of the children
RECURSIVE Traverse(_, _)
Traverse(h, x) ==
  <<x>> \o Flatten([i \in DOMAIN h[x].kids |-> Traverse(h, h[x].kids[i])])

\* the object and all its descendants
Descendants(h, x) ==
  LET order == Traverse(h, x) IN {order[i] : i \in DOMAIN order}

WinDims(s) == WindowSizes[s.win]

\* ---------------------------------------------------------------- methods
\* this.scene = new THREE.Scene(), the background texture of a URL, then
\* the test of this.config.scene.fog.enabled (a THREE.Color background and
\* the fog are values kept on the scene)
createScene(s) ==
  IF s.threw THEN s
  ELSE
    LET sid == s.nextId
        s1 == [Alloc(s, Obj("scene", "orch")) EXCEPT !.scene = sid]
        tid == s1.nextId
        s2 == IF Get(s.config.scene, "background") = "url"
              THEN [Alloc(s1, Obj("texture", "orch")) EXCEPT
                      !.heap[sid].maps = {<<"background", tid>>}]
              ELSE s1
    IN IF ~Has(s.config, "scene") THEN Throw(s1)
       ELSE IF ~Has(s.config.scene, "fog") THEN Throw(s2)
       ELSE s2

\* a quotient n / d as a fraction in lowest terms, d > 0
RECURSIVE GCD(_, _)
GCD(a, b) == IF b = 0 THEN a ELSE GCD(b, a % b)

Abs(n) == IF n < 0 THEN -n ELSE n

Ratio(n, d) ==
  LET g == GCD(Abs(n), d) IN <<n \div g, d \div g>>

\* window.innerWidth / window.innerHeight
Aspect(dims) == Ratio(dims[1], dims[2])

\* the bounds <<left, right, top, bottom>> of the orthographic camera
\* (Math.abs(right - left) || innerWidth / 2, times the aspect); a bound
\* that is missing makes the difference NaN, which is falsy
OrthoArgs(o, dims) ==
  LET span == IF Has(o, "right") /\ Has(o, "left")
              THEN Abs(o.right - o.left) ELSE 0
      rise == IF Has(o, "top") /\ Has(o, "bottom")
              THEN Abs(o.top - o.bottom) ELSE 0
      \* width and height as fractions: half the window when the span is 0
      width == IF span # 0 THEN <<span, 1>> ELSE Ratio(dims[1], 2)
      height == IF rise # 0 THEN <<rise, 1>> ELSE Ratio(dims[2], 2)
      edge == Ratio(width[1] * dims[1], width[2] * dims[2])
  IN << <<-edge[1], edge[2]>>, edge, height, <<-height[1], height[2]>> >>

\* the projection parameters the window size decides: the aspect of a
\* perspective camera, the bounds of an orthographic one
ProjectionArgs(s) ==
  IF Get(s.config.camera, "type") = "perspective"
  THEN <<Aspect(WinDims(s))>>
  ELSE OrthoArgs(s.config.camera.orthographic, WinDims(s))

\* the destructuring of this.config.camera.perspective or .orthographic
\* throws before the camera exists, that of .position and .rotation after
\* this.camera is assigned
createCamera(s) ==
  IF s.threw THEN s
  ELSE IF ~Has(s.config, "camera") THEN Throw(s)
  ELSE IF ~Enabled(s.config.camera) THEN s
  ELSE IF ~Has(s.config.camera, IF Get(s.config.camera, "type") = "perspective"
                                THEN "perspective" ELSE "orthographic")
  THEN Throw(s)
  ELSE
    LET cid == s.nextId
        cam == [Obj("camera", "orch") EXCEPT
                  !.tag = IF Get(s.config.camera, "type") = "perspective"
                          THEN "perspective" ELSE "orthographic",
                  !.dims = WinDims(s),
                  !.args = ProjectionArgs(s)]
        s1 == [Alloc(s, cam) EXCEPT !.camera = cid]
    IN IF ~Has(s.config.camera, "position") \/ ~Has(s.config.camera, "rotation")
       THEN Throw(s1)
       ELSE [s1 EXCEPT !.heap[cid].rot = s.config.camera.rotation]

\* returns the state in which the material is the newest object, or the
\* state in which a missing key has thrown
createMaterial(s) ==
  IF ~Has(s.config, "material") THEN Throw(s)
  ELSE IF ~Enabled(s.config.material)
  THEN Alloc(s, Obj("material", "orch"))
  ELSE IF ~Has(s.config.material, "texture") THEN Throw(s)
  ELSE IF Enabled(s.config.material.texture)
          /\ Has(s.config.material.texture, "url")
  THEN LET tid == s.nextId
           s1 == Alloc(s, Obj("texture", "orch"))
       IN IF ~Has(s.config.material.texture, "repeat")
             \/ ~Has(s.config.material.texture, "offset")
          THEN Throw(s1)
          ELSE Alloc(s1, [Obj("material", "orch") EXCEPT
                            !.maps = {<<"map", tid>>}])
  ELSE Alloc(s, Obj("material", "orch"))

PrimitiveTypes ==
  {"torusKnot", "box", "sphere", "torus", "octahedron", "tetrahedron",
   "icosahedron"}

\* regions.forEach: per region a label, a marker mesh (geometry, material)
\* and a line (geometry, material), created in this order
PerRegion == 7

RegionObj(i, k) ==
  LET base == [Obj("geometry", "orch") EXCEPT !.tag = ToString(i)]
  IN CASE k = 0 -> [base EXCEPT !.kind = "label"]
       [] k = 1 -> base
       [] k = 2 -> [base EXCEPT !.kind = "material"]
       [] k = 3 -> [base EXCEPT !.kind = "mesh"]
       [] k = 4 -> base
       [] k = 5 -> [base EXCEPT !.kind = "material"]
       [] OTHER -> [base EXCEPT !.kind = "line"]

LabelRegions(s, n) ==
  LET first == s.nextId
      new == first .. (first + PerRegion * n - 1)
      k(x) == (x - first) % PerRegion
      i(x) == (x - first) \div PerRegion + 1
      node(x) == IF k(x) \in {3, 6}
                 THEN [RegionObj(i(x), k(x)) EXCEPT !.geo = x - 2,
                                                    !.mats = <<x - 1>>]
                 ELSE RegionObj(i(x), k(x))
      \* the label, the marker and the line of each region, as added
      added == [j \in 1..(3 * n) |->
                  first + PerRegion * ((j - 1) \div 3) + 3 * ((j - 1) % 3)]
  IN IF s.threw \/ n = 0 THEN s
     ELSE IF s.brainGroup = Null           \* the first label exists when
     THEN Throw(Alloc(s, RegionObj(1, 0))) \* this.brainGroup.add throws
     ELSE [s EXCEPT
             !.nextId = first + PerRegion * n,
             !.labels = @ \o [j \in 1..n |-> first + PerRegion * (j - 1)],
             !.heap = [x \in DOMAIN @ \cup new |->
                         IF x \in new THEN node(x)
                         ELSE IF x = s.brainGroup
                         THEN [@[x] EXCEPT !.kids = @ \o added]
                         ELSE @[x]]]

\* createBrainLabels, the block that makes the CSS2DRenderer
createLabelRenderer(s) ==
  IF s.threw \/ s.labelRenderer # Null THEN s
  ELSE LET lr == s.nextId
           a == Alloc(s, [Obj("labelRenderer", "orch") EXCEPT
                            !.dims = WinDims(s)])
       IN [a EXCEPT !.labelRenderer = lr, !.dom = @ @@ (lr :> Root)]

createBrainLabels(s, regions) == LabelRegions(createLabelRenderer(s), regions)

\* if (brainConfig.showLabels) this.createBrainLabels(brainConfig.regions):
\* regions.forEach throws when the key is missing
showLabels(s, brainConfig) ==
  IF s.threw \/ ~Truthy(brainConfig, "showLabels") THEN s
  ELSE IF ~Has(brainConfig, "regions") THEN Throw(createLabelRenderer(s))
  ELSE createBrainLabels(s, brainConfig.regions)

\* ------------------------------------------- the authored fallback brain
NoRotation == <<FZero, FZero, FZero>>

\* part.rotation.x = a, part.rotation.y = a, part.rotation.z = a
RotX(a) == <<a, FZero, FZero>>
RotY(a) == <<FZero, a, FZero>>
RotZ(a) == <<FZero, FZero, a>>
RotXY(a, b) == <<a, b, FZero>>
RotXZ(a, c) == <<a, FZero, c>>
RotYZ(b, c) == <<FZero, b, c>>

\* The statements of createFallbackBrain that create objects, in the order
\* in which they run.
\* const nameMaterial = new THREE.MeshPhysicalMaterial(...)
Material(name) ==
  [op |-> "material", name |-> name, rot |-> NoRotation, into |-> ""]

\* const part = new THREE.Mesh(new THREE.XGeometry(...), nameMaterial);
\* part.rotation...; this.brainGroup.add(part)
Part(name, rot) ==
  [op |-> "mesh", name |-> name, rot |-> rot, into |-> "brainGroup"]

\* the same with hemiGroup.add(part)
HemispherePart(name, rot) ==
  [op |-> "mesh", name |-> name, rot |-> rot, into |-> "hemiGroup"]

\* new THREE.Mesh(new THREE.TorusGeometry(...), new
\* THREE.MeshPhysicalMaterial(...)): the material is made after the geometry
PartOwnMaterial(name, rot) ==
  [op |-> "meshMaterial", name |-> name, rot |-> rot, into |-> "brainGroup"]

\* this.brainGroup.add(createHemisphere(...)): const hemiGroup = new
\* THREE.Group(), made after this.brainGroup.add has been looked up
HemisphereGroup ==
  [op |-> "group", name |-> "", rot |-> NoRotation, into |-> "brainGroup"]

\* [-1, 1] as doubles
Sides == <<Minus(F1_0), F1_0>>

\* the angles side * a of a part made in [-1, 1].forEach((side) => ...)
OnSide(side, rot) == [k \in 1..3 |-> FMul(side, rot[k])]

\* main.js: two hemispheres, cerebellum, brainstem and twenty bumps
FallbackMain ==
  <<Material("brain"),
    Part("brain", RotY(FHalf(FPi))),
    Part("brain", RotY(FHalf(Minus(FPi)))),
    Part("brain", NoRotation),
    Part("brain", NoRotation),
    Material("wrinkle")>>
  \o [i \in 1..20 |-> Part("wrinkle", NoRotation)]

\* part_000, createHemisphere(isLeft)
createHemisphere(side) ==
  <<HemisphereGroup,
    HemispherePart("cortex", OnSide(side, RotY(FHalf(FPi)))),
    HemispherePart("cortex", NoRotation),
    HemispherePart("cortex", NoRotation),
    HemispherePart("cortex", NoRotation)>>

\* part_000: hemispheres in groups, gyri, sulci, temporal lobes,
\* cerebellum, brainstem, corpus callosum and deep structures
FallbackPart000 ==
  <<Material("cortex")>>
  \o createHemisphere(Sides[1]) \o createHemisphere(Sides[2])
  \o <<Material("gyrus")>>
  \o [i \in 1..14 |-> Part("gyrus", NoRotation)]
  \o <<Material("sulcus"), Part("sulcus", NoRotation)>>
  \o [i \in 1..2 |-> Part("sulcus", OnSide(Sides[i], RotYZ(F0_2, F0_4)))]
  \o [i \in 1..2 |->
        Part("sulcus", OnSide(Sides[i], RotYZ(F0_25, Minus(F0_3))))]
  \o [i \in 1..2 |-> Part("sulcus", RotX(Minus(F0_5)))]
  \o [i \in 1..4 |-> Part("cortex", NoRotation)]
  \o <<Material("cerebellum"), Part("cerebellum", NoRotation)>>
  \o [i \in 1..2 |-> Part("cerebellum", NoRotation)]
  \o <<Material("folia")>>
  \o [i \in 1..5 |-> Part("folia", RotX(FHalf(FPi)))]
  \o <<Material("brainstem"),
       Part("brainstem", RotX(F0_15)),
       Part("brainstem", NoRotation),
       Part("brainstem", RotX(F0_12)),
       PartOwnMaterial("whiteMatter", RotXY(FPi, FHalf(FPi))),
       Material("deep"),
       Part("deep", NoRotation),
       Part("deep", NoRotation),
       Material("hippo")>>
  \o [i \in 1..2 |-> Part("hippo", OnSide(Sides[i], RotYZ(F0_25, F0_4)))]
  \o [i \in 1..2 |-> Part("hippo", NoRotation)]

\* part_001: hemispheres, lobes, fissures, cerebellum with ridges,
\* brainstem, corpus callosum and deep structures
FallbackPart001 ==
  <<Material("cortex"),
    Part("cortex", RotY(FHalf(FPi))),
    Part("cortex", RotY(FHalf(Minus(FPi)))),
    Part("cortex", NoRotation),
    Part("cortex", NoRotation),
    Part("cortex", NoRotation),
    Part("cortex", NoRotation),
    Material("fissure"),
    Part("fissure", NoRotation),
    Part("fissure", RotYZ(F0_15, Minus(F0_25))),
    Part("fissure", RotYZ(Minus(F0_15), F0_25)),
    Material("cerebellum"),
    Part("cerebellum", NoRotation),
    Material("ridge")>>
  \o [i \in 1..4 |-> Part("ridge", RotX(FHalf(FPi)))]
  \o <<Material("brainstem"),
       Part("brainstem", NoRotation),
       Part("brainstem", RotX(F0_15)),
       PartOwnMaterial("whiteMatter", RotXY(FPi, FHalf(FPi))),
       Material("deep"),
       Part("deep", NoRotation),
       Part("deep", NoRotation),
       Material("hippo"),
       Part("hippo", RotYZ(F0_25, F0_4)),
       Part("hippo", RotYZ(Minus(F0_25), Minus(F0_4))),
       Part("hippo", NoRotation),
       Part("hippo", NoRotation)>>

\* part_002: the colour-coded lobes and structures
FallbackPart002 ==
  <<Material("frontal"),
    Part("frontal", NoRotation),
    Part("frontal", NoRotation),
    Part("frontal", NoRotation),
    Material("parietal"),
    Part("parietal", NoRotation),
    Part("parietal", NoRotation),
    Material("temporal"),
    Part("temporal", NoRotation),
    Part("temporal", NoRotation),
    Material("occipital"),
    Part("occipital", NoRotation),
    Part("occipital", NoRotation),
    Material("motor"),
    Part("motor", RotXZ(FHalf(FPi), F0_3)),
    Part("motor", RotXZ(FHalf(FPi), Minus(F0_3))),
    Material("sensory"),
    Part("sensory", RotXZ(FHalf(FPi), F0_35)),
    Part("sensory", RotXZ(FHalf(FPi), Minus(F0_35))),
    Material("fissure"),
    Part("fissure", NoRotation),
    Part("fissure", RotZ(Minus(F0_4))),
    Part("fissure", RotZ(F0_4)),
    Part("fissure", RotYZ(F0_15, Minus(F0_2))),
    Part("fissure", RotYZ(Minus(F0_15), F0_2)),
    Material("cerebellum"),
    Part("cerebellum", NoRotation),
    Part("cerebellum", NoRotation),
    Part("cerebellum", NoRotation),
    Material("folia")>>
  \o [i \in 1..5 |-> Part("folia", RotX(FHalf(FPi)))]
  \o <<Material("brainstem"),
       Part("brainstem", RotX(F0_2)),
       Part("brainstem", NoRotation),
       Part("brainstem", RotX(F0_15)),
       PartOwnMaterial("whiteMatters", RotXY(FPi, FHalf(FPi))),
       Material("limbic"),
       Part("limbic", NoRotation),
       Part("limbic", NoRotation),
       Material("hippo"),
       Part("hippo", RotYZ(F0_3, F0_5)),
       Part("hippo", RotYZ(Minus(F0_3), Minus(F0_5))),
       Material("amygdala"),
       Part("amygdala", NoRotation),
       Part("amygdala", NoRotation),
       Material("basal"),
       Part("basal", RotY(FHalf(FHalf(FPi)))),
       Part("basal", RotY(FHalf(FHalf(Minus(FPi))))),
       Part("basal", NoRotation),
       Part("basal", NoRotation),
       Material("ventricle"),
       Part("ventricle", RotXZ(FHalf(FPi), F0_3)),
       Part("ventricle", RotXZ(FHalf(FPi), Minus(F0_3)))>>

FallbackStatements(r) ==
  CASE r = "main.js" -> FallbackMain
    [] r = "part_000" -> FallbackPart000
    [] r = "part_001" -> FallbackPart001
    [] OTHER -> FallbackPart002

\* an object of the fallback brain; geo, mat and parent are positions in
\* the order of creation (parent 0 is this.brainGroup, -1 is none)
FallbackObj(kind) ==
  [kind |-> kind, tag |-> "", rot |-> NoRotation, geo |-> 0, mat |-> 0,
   parent |-> -1]

\* The objects that the statements create, in the order of creation.
\* made: the material variables as <<name, position>>; group: hemiGroup
RECURSIVE FallbackObjects(_, _, _, _)
FallbackObjects(statements, objs, made, group) ==
  IF statements = <<>> THEN objs
  ELSE
    LET st == Head(statements)
        n == Len(objs)
        part(geo, mat) ==
          [FallbackObj("mesh") EXCEPT
             !.tag = st.name, !.rot = st.rot, !.geo = geo, !.mat = mat,
             !.parent = IF st.into = "brainGroup" THEN 0 ELSE group]
    IN CASE st.op = "material" ->
              FallbackObjects(Tail(statements),
                              Append(objs, FallbackObj("material")),
                              {m \in made : m[1] # st.name}
                                \cup {<<st.name, n + 1>>}, group)
         [] st.op = "group" ->
              FallbackObjects(Tail(statements),
                              Append(objs, [FallbackObj("group") EXCEPT
                                              !.parent = 0]),
                              made, n + 1)
         [] st.op = "mesh" ->
              FallbackObjects(Tail(statements),
                              objs \o <<FallbackObj("geometry"),
                                        part(n + 1,
                                             (CHOOSE m \in made :
                                                m[1] = st.name)[2])>>,
                              made, group)
         [] OTHER ->
              FallbackObjects(Tail(statements),
                              objs \o <<FallbackObj("geometry"),
                                        FallbackObj("material"),
                                        part(n + 1, n + 2)>>,
                              made, group)

FallbackBrain ==
  [r \in Revisions |-> FallbackObjects(FallbackStatements(r), <<>>, {}, 0)]

\* the material names of the part meshes, and the number of part meshes
FallbackTags(r) ==
  {FallbackBrain[r][j].tag :
     j \in {k \in DOMAIN FallbackBrain[r] : FallbackBrain[r][k].kind = "mesh"}}

FallbackParts(r) ==
  Cardinality({k \in DOMAIN FallbackBrain[r] :
                 FallbackBrain[r][k].kind = "mesh"})

\* The objects exist once createFallbackBrain has run; with this.brainGroup
\* null the first this.brainGroup.add throws, after the objects made so far
\* (a group in the argument of add has not been made yet).
BuildFallback(s, objs) ==
  LET first == s.nextId
      firstAdd == CHOOSE j \in DOMAIN objs :
                    objs[j].parent = 0 /\ \A k \in 1..(j - 1) : objs[k].parent # 0
      built == IF s.brainGroup # Null THEN Len(objs)
               ELSE IF objs[firstAdd].kind = "group" THEN firstAdd - 1
               ELSE firstAdd
      new == first .. (first + built - 1)
      \* every child is added when it has been made
      children(p) ==
        LET made == SelectSeq([j \in 1..built |-> j],
                              LAMBDA j : objs[j].parent = p)
        IN [i \in DOMAIN made |-> first + made[i] - 1]
      node(d, j) ==
        [Obj(d.kind, "orch") EXCEPT
           !.tag = d.tag, !.rot = d.rot,
           !.geo = IF d.geo = 0 THEN Null ELSE first + d.geo - 1,
           !.mats = IF d.mat = 0 THEN <<>> ELSE <<first + d.mat - 1>>,
           !.kids = IF d.kind = "group" THEN children(j) ELSE <<>>]
  IN [s EXCEPT
        !.nextId = first + built,
        !.threw = @ \/ s.brainGroup = Null,
        !.heap = [x \in DOMAIN @ \cup new |->
                    IF x \in new THEN node(objs[x - first + 1], x - first + 1)
                    ELSE IF x = s.brainGroup
                    THEN [@[x] EXCEPT !.kids = @ \o children(0)]
                    ELSE @[x]]]

FallbackMeshes(s) == BuildFallback(s, FallbackBrain[s.rev])

\* brainConfig.scale throws when geometry has no brain section
createFallbackBrain(s) ==
  IF s.threw THEN s
  ELSE IF ~Has(s.config, "geometry") \/ ~Has(s.config.geometry, "brain")
  THEN Throw(s)
  ELSE
    LET s1 == FallbackMeshes(s)
    IN IF s1.threw THEN s1
       ELSE showLabels([s1 EXCEPT !.mesh = s.brainGroup],
                       s.config.geometry.brain)

\* the load request: brainConfig.modelUrl throws when geometry has no
\* brain section, after the group is in the scene
requestModel(s, v) ==
  IF s.threw THEN s
  ELSE IF ~Has(s.config.geometry, "brain") THEN Throw(s)
  ELSE [s EXCEPT !.loads = @ \cup {[id |-> s.nextLoad, version |-> v,
                                    brainConfig |-> s.config.geometry.brain,
                                    scene |-> s.scene]},
                 !.nextLoad = @ + 1]

\* part_000, part_001, part_002: the load request carries the version it
\* was started under
createBrainGeometry(s) ==
  LET v == s.loadingVersion + 1
      g == s.nextId
      s1 == [Alloc(s, Obj("group", "orch")) EXCEPT !.loadingVersion = v,
                                                   !.brainGroup = g]
  IN requestModel(Add(s1, s1.scene, g), v)

\* main.js: no version counter
createBrainGeometryMain(s) ==
  LET g == s.nextId
      s1 == [Alloc(s, Obj("group", "orch")) EXCEPT !.brainGroup = g]
  IN requestModel(Add(s1, s1.scene, g), 0)

\* the arguments of the geometry constructors, in the order of the call;
\* a parameter that is missing is undefined
torusKnotArgsSwapped(p) ==
  <<Get(p, "radius"), Get(p, "tube"), Get(p, "radialSegments"),
    Get(p, "tubularSegments"), Get(p, "p"), Get(p, "q")>>

torusKnotArgs(p) ==
  <<Get(p, "radius"), Get(p, "tube"), Get(p, "tubularSegments"),
    Get(p, "radialSegments"), Get(p, "p"), Get(p, "q")>>

boxArgs(p) ==
  <<Get(p, "width"), Get(p, "height"), Get(p, "depth"),
    Get(p, "widthSegments"), Get(p, "heightSegments"),
    Get(p, "depthSegments")>>

sphereArgs(p) ==
  <<Get(p, "radius"), Get(p, "widthSegments"), Get(p, "heightSegments"),
    Get(p, "phiStart"), Get(p, "phiLength"), Get(p, "thetaStart"),
    Get(p, "thetaLength")>>

torusArgs(p) ==
  <<Get(p, "radius"), Get(p, "tube"), Get(p, "radialSegments"),
    Get(p, "tubularSegments"), Get(p, "arc")>>

polyhedronArgs(p) == <<Get(p, "radius"), Get(p, "detail")>>

GeometryArgs(type, p) ==
  CASE type = "torusKnot" -> torusKnotArgs(p)
    [] type = "box" -> boxArgs(p)
    [] type = "sphere" -> sphereArgs(p)
    [] type = "torus" -> torusArgs(p)
    [] OTHER -> polyhedronArgs(p)

\* createGeometry, default case: console.warn and return
unknownGeometryTypeThrows(s) == [s EXCEPT !.threw = TRUE]

unknownGeometryType(s) == s

\* createGeometry, after the switch: the material, the mesh, scene.add
createMesh(s, geo) ==
  LET s2 == createMaterial(s)
      mat == s2.nextId - 1
      m == s2.nextId
      s3 == Alloc(s2, [Obj("mesh", "orch") EXCEPT !.geo = geo,
                         !.mats = <<mat>>])
  IN IF s2.threw THEN s2
     ELSE Add([s3 EXCEPT !.mesh = m], s3.scene, m)

createGeometry(s) ==
  IF s.threw THEN s
  ELSE IF ~Has(s.config, "geometry") THEN Throw(s)
  ELSE IF ~Enabled(s.config.geometry) THEN s
  ELSE IF Get(s.config.geometry, "type") \in PrimitiveTypes
  THEN
    IF s.config.geometry.type \notin DOMAIN s.config.geometry
    THEN Throw(s)                    \* destructuring of undefined
    ELSE
      LET type == s.config.geometry.type
      IN createMesh(Alloc(s, [Obj("geometry", "orch") EXCEPT
                                !.tag = type,
                                !.args = GeometryArgs(type,
                                                      s.config.geometry[type])]),
                    s.nextId)
  ELSE IF Get(s.config.geometry, "type") = "brain"
  THEN IF s.rev = "main.js" THEN createBrainGeometryMain(s)
       ELSE createBrainGeometry(s)
  ELSE unknownGeometryType(s)

\* what createLights reads of the section of a light after the light is
\* made: position (and, for the spot light, target and the shadow section
\* when castShadow is set)
LightSectionComplete(kind, c) ==
  CASE kind = "ambient" -> TRUE
    [] kind = "spot" ->
         /\ Has(c, "position") /\ Has(c, "target")
         /\ Truthy(c, "castShadow") =>
              /\ Has(c, "shadow")
              /\ Has(c.shadow, "mapSize") /\ Has(c.shadow, "camera")
    [] OTHER -> Has(c, "position")

\* one block of createLights; the target of a spot light is made with it
createLight(s, kind) ==
  IF ~Has(s.config.lighting, kind) THEN Throw(s)
  ELSE IF ~Enabled(s.config.lighting[kind]) THEN s
  ELSE
    LET light == s.nextId
        s1 == Alloc(s, [Obj("light", "orch") EXCEPT !.tag = kind])
        s2 == IF kind = "spot" THEN Alloc(s1, Obj("target", "orch")) ELSE s1
        s3 == Add(s2, s.scene, light)
        s4 == IF kind = "spot"     \* scene.add(light.target)
              THEN Add(s3, s.scene, light + 1) ELSE s3
    IN IF ~LightSectionComplete(kind, s.config.lighting[kind]) THEN Throw(s2)
       ELSE IF s4.threw THEN s4
       ELSE [s4 EXCEPT !.lights = Append(@, light)]

RECURSIVE LightsFrom(_, _)
LightsFrom(s, i) ==
  IF i > Len(LightKinds) \/ s.threw THEN s
  ELSE LightsFrom(createLight(s, LightKinds[i]), i + 1)

createLights(s) ==
  IF s.threw THEN s
  ELSE IF ~Has(s.config, "lighting") THEN Throw(s)
  ELSE IF ~Enabled(s.config.lighting) THEN s
  ELSE LightsFrom(s, 1)

\* shadowMap.enabled is read after this.renderer is set and sized, before
\* the canvas is appended
createRenderer(s) ==
  IF s.threw THEN s
  ELSE IF ~Has(s.config, "renderer") THEN Throw(s)
  ELSE IF ~Enabled(s.config.renderer) THEN s
  ELSE
    LET r == s.nextId
        s1 == [Alloc(s, [Obj("renderer", "orch") EXCEPT !.dims = WinDims(s)])
                 EXCEPT !.renderer = r]
    IN IF ~Has(s.config.renderer, "shadowMap") THEN Throw(s1)
       ELSE [s1 EXCEPT !.dom = @ @@ (r :> Root)]

initLightsFirst(s) ==
  createRenderer(createGeometry(createLights(createCamera(createScene(s)))))

init(s) ==
  createRenderer(createLights(createGeometry(createCamera(createScene(s)))))

Scale(v, k) == <<FMul(v[1], k), FMul(v[2], k), FMul(v[3], k)>>
Plus(u, v) == <<FAdd(u[1], v[1]), FAdd(u[2], v[2]), FAdd(u[3], v[3])>>

\* CSS2DRenderer.render: the elements of the labels in the scene are
\* appended to the overlay element
RenderLabels(s) ==
  LET shown == {x \in Descendants(s.heap, s.scene) : s.heap[x].kind = "label"}
  IN [s EXCEPT !.heap[s.labelRenderer].draws = @ + 1,
               !.dom = [x \in DOMAIN @ \cup shown |->
                          IF x \in shown THEN s.labelRenderer ELSE @[x]]]

\* animate: this.animationId = requestAnimationFrame(() => this.animate())
animateRequestTwice(s) ==
  [s EXCEPT !.animationId = s.nextRaf + 1,
            !.rafPending = @ \cup {s.nextRaf, s.nextRaf + 1},
            !.nextRaf = @ + 2]

animateRequest(s) ==
  [s EXCEPT !.animationId = s.nextRaf,
            !.rafPending = @ \cup {s.nextRaf},
            !.nextRaf = @ + 1]

\* this.config.animation.speed; undefined makes every product NaN
Speed(s) == IF Has(s.config.animation, "speed") THEN s.config.animation.speed
            ELSE NaN

\* animate: the rotation block
animateRotateUnscaled(s) ==
  IF Truthy(s.config.animation, "autoRotate") /\ s.mesh # Null
  THEN IF ~Has(s.config.animation, "rotation") THEN Throw(s)
       ELSE [s EXCEPT !.heap[s.mesh].rot = Plus(@, s.config.animation.rotation)]
  ELSE s

animateRotate(s) ==
  IF Truthy(s.config.animation, "autoRotate") /\ s.mesh # Null
  THEN IF ~Has(s.config.animation, "rotation") THEN Throw(s)
       ELSE [s EXCEPT !.heap[s.mesh].rot =
               Plus(@, Scale(s.config.animation.rotation, Speed(s)))]
  ELSE s

\* animate: the render block
animateRenderUnguarded(s) ==
  IF s.threw THEN s
  ELSE IF s.renderer = Null THEN Throw(s)
  ELSE LET s3 == [s EXCEPT !.heap[s.renderer].draws = @ + 1]
       IN IF s3.labelRenderer # Null THEN RenderLabels(s3) ELSE s3

animateRender(s) ==
  IF s.threw THEN s
  ELSE IF s.renderer # Null /\ s.scene # Null /\ s.camera # Null
  THEN LET s3 == [s EXCEPT !.heap[s.renderer].draws = @ + 1]
       IN IF s3.labelRenderer # Null THEN RenderLabels(s3) ELSE s3
  ELSE s

animate(s) ==
  IF s.threw THEN s
  ELSE IF ~Has(s.config, "animation") THEN Throw(s)
  ELSE IF ~Enabled(s.config.animation) THEN s
  ELSE animateRender(animateRotate(animateRequest(s)))

\* if (this.config.animation.enabled) this.animate(), in the constructor
\* and in updateConfig
startAnimation(s) ==
  IF s.threw THEN s
  ELSE IF ~Has(s.config, "animation") THEN Throw(s)
  ELSE IF Enabled(s.config.animation) THEN animate(s)
  ELSE s

\* the constructor's handleResize(): creates and registers the handler
handleResize(s) ==
  IF s.threw THEN s
  ELSE [Alloc(s, Obj("function", "orch")) EXCEPT
          !.resizeHandler = s.nextId, !.listeners = @ \cup {s.nextId}]

resizeCameraSkipped(s) == s

\* the body of this.resizeHandler, the camera branch: camera.fov !== undefined, else camera.left !== undefined
resizeCamera(s) ==
  IF s.heap[s.camera].tag = "perspective"
  THEN [s EXCEPT !.heap[s.camera].dims = WinDims(s),
                 !.heap[s.camera].args = <<Aspect(WinDims(s))>>,
                 !.heap[s.camera].projs = @ + 1]
  ELSE IF ~Has(s.config, "camera") \/ ~Has(s.config.camera, "orthographic")
  THEN Throw(s)                        \* destructuring of undefined
  ELSE [s EXCEPT !.heap[s.camera].dims = WinDims(s),
                 !.heap[s.camera].args =
                   OrthoArgs(s.config.camera.orthographic, WinDims(s)),
                 !.heap[s.camera].projs = @ + 1]

resizeHandlerBodyRenders(s) ==
  IF s.camera # Null /\ s.renderer # Null
  THEN animateRender([resizeCamera(s) EXCEPT
                        !.heap[s.renderer].dims = WinDims(s)])
  ELSE s

\* the body of this.resizeHandler
resizeHandlerBody(s) ==
  IF s.camera # Null /\ s.renderer # Null
  THEN LET s0 == resizeCamera(s)
           s1 == [s0 EXCEPT !.heap[s.renderer].dims = WinDims(s)]
       IN IF s0.threw THEN s0
          ELSE IF s1.labelRenderer # Null
          THEN [s1 EXCEPT !.heap[s1.labelRenderer].dims = WinDims(s)]
          ELSE s1
  ELSE s

\* part_001 and part_002, disposeMaterial
textureProperties ==
  <<"map", "lightMap", "bumpMap", "normalMap", "specularMap", "envMap",
    "alphaMap", "aoMap", "displacementMap", "emissiveMap", "gradientMap",
    "metalnessMap", "roughnessMap", "clearcoatMap", "clearcoatNormalMap",
    "clearcoatRoughnessMap">>

\* the dispose() calls of dispose() on a node, in order: node.geometry if
\* there is one, then node.material (one material or each of an array)
NodeRefs(h, n) ==
  (IF h[n].geo # Null THEN <<h[n].geo>> ELSE <<>>) \o h[n].mats

\* the dispose() calls of disposeMaterial(material), in order: the texture
\* maps named in textureProperties, then the material; none for null
MaterialRefs(h, material) ==
  IF material = Null THEN <<>>
  ELSE LET held == SelectSeq(textureProperties,
                             LAMBDA p : \E q \in h[material].maps : q[1] = p)
       IN [i \in DOMAIN held |->
             (CHOOSE q \in h[material].maps : q[1] = held[i])[2]]
          \o <<material>>

disposeMaterial(s, material) ==
  DisposeSeq(s, MaterialRefs(s.heap, material))

\* child.geometry.dispose() and material.dispose() of each node, in the
\* order of nodes
DisposeNodes(s, nodes) ==
  DisposeSeq(s, Flatten([i \in DOMAIN nodes |-> NodeRefs(s.heap, nodes[i])]))

\* dispose(): cancelAnimationFrame(this.animationId)
disposeCancelFrameSkipped(s) == s

disposeCancelFrame(s) ==
  IF s.animationId # Null
  THEN [s EXCEPT !.rafPending = @ \ {s.animationId}]
  ELSE s

\* dispose(): window.removeEventListener('resize', this.resizeHandler)
disposeRemoveListenerSkipped(s) == s

disposeRemoveListener(s) ==
  IF s.resizeHandler # Null
  THEN [s EXCEPT !.listeners = @ \ {s.resizeHandler}]
  ELSE s

\* dispose(): this.renderer.dispose()
disposeRendererUnguarded(s) == IF s.threw THEN s ELSE DisposeObj(s, s.renderer)

disposeRenderer(s) ==
  IF ~s.threw /\ s.renderer # Null THEN DisposeObj(s, s.renderer) ELSE s

\* dispose(): the labels' elements and the overlay leave the document
disposeLabels(s) ==
  LET gone == {s.labels[i] : i \in DOMAIN s.labels}
      s6 == [s EXCEPT !.dom = [x \in DOMAIN @ \ gone |-> @[x]],
                      !.labels = <<>>]
  IN IF s.threw THEN s
     ELSE IF s6.labelRenderer # Null /\ s6.labelRenderer \in DOMAIN s6.dom
     THEN [s6 EXCEPT !.dom = [x \in DOMAIN @ \ {s6.labelRenderer} |-> @[x]]]
     ELSE s6

dispose(s) ==
  LET s1 == disposeCancelFrame(s)
      s2 == disposeRemoveListener(s1)
      s3 == DisposeSeq(s2, s2.lights)
      s4 == IF s3.mesh # Null THEN DisposeNodes(s3, <<s3.mesh>>) ELSE s3
      s5 == IF s4.brainGroup # Null
            THEN DisposeNodes(s4, Traverse(s4.heap, s4.brainGroup))
            ELSE s4
  IN disposeRenderer(disposeLabels(s5))

\* { ...this.config, ...newConfig }
Merge(old, new) ==
  [k \in DOMAIN old \cup DOMAIN new |->
     IF k \in DOMAIN new THEN new[k] ELSE old[k]]

updateConfig(s, newConfig) ==
  startAnimation(init(dispose([s EXCEPT !.config = Merge(s.config, newConfig)])))

\* the constructor's field initialisers: the configuration and the two
\* loaders (new THREE.TextureLoader(), new GLTFLoader())
constructorFields(s, cfg) ==
  Alloc(Alloc([s EXCEPT !.config = cfg], Obj("textureLoader", "orch")),
        Obj("gltfLoader", "orch"))

constructorAnimatesTwice(s, cfg) ==
  handleResize(startAnimation(startAnimation(init(constructorFields(s, cfg)))))

constructor(s, cfg) ==
  handleResize(startAnimation(init(constructorFields(s, cfg))))

\* ------------------------------------------------------- the GLTF loader
\* What the loader can hand to the success callback: the children of
\* gltf.scene, each with an optional geometry, its materials (one, or an
\* array), its own children, and every material with the texture maps it
\* holds. The first model is flat and its maps are among those named in
\* disposeMaterial; the second has a mesh under a mesh under a plain
\* Object3D, and a MeshPhysicalMaterial with a transmissionMap.
Models ==
  { << [isMesh |-> TRUE, geo |-> TRUE, mats |-> <<{"map", "normalMap"}, {}>>,
        kids |-> <<>>],
       [isMesh |-> TRUE, geo |-> FALSE, mats |-> <<>>, kids |-> <<>>],
       [isMesh |-> FALSE, geo |-> TRUE, mats |-> <<{"emissiveMap"}>>,
        kids |-> <<>>] >>,
    << [isMesh |-> FALSE, geo |-> FALSE, mats |-> <<>>,
        kids |-> << [isMesh |-> TRUE, geo |-> TRUE,
                     mats |-> <<{"map", "transmissionMap"}>>,
                     kids |-> << [isMesh |-> TRUE, geo |-> TRUE,
                                  mats |-> <<{}>>, kids |-> <<>>] >>],
                    [isMesh |-> TRUE, geo |-> TRUE,
                     mats |-> <<{"roughnessMap"}>>, kids |-> <<>>] >>] >> }

RECURSIVE LoadTextures(_, _, _)
LoadTextures(s, material, props) ==
  IF props = {} THEN s
  ELSE LET p == CHOOSE q \in props : TRUE
           t == s.nextId
           s1 == Alloc(s, Obj("texture", "loader"))
       IN LoadTextures([s1 EXCEPT !.heap[material].maps = @ \cup {<<p, t>>}],
                       material, props \ {p})

RECURSIVE LoadMaterials(_, _, _)
LoadMaterials(s, node, ms) ==
  IF ms = <<>> THEN s
  ELSE LET m == s.nextId
           s1 == LoadTextures(Alloc(s, Obj("material", "loader")), m, Head(ms))
       IN LoadMaterials([s1 EXCEPT !.heap[node].mats = Append(@, m)],
                        node, Tail(ms))

RECURSIVE LoadNodes(_, _, _)
LoadNodes(s, root, nodes) ==
  IF nodes = <<>> THEN s
  ELSE LET d == Head(nodes)
           n == s.nextId
           s1 == Alloc(s, Obj(IF d.isMesh THEN "mesh"
                              ELSE IF d.geo THEN "line" ELSE "object",
                              "loader"))
           s2 == IF d.geo
                 THEN [Alloc(s1, Obj("geometry", "loader")) EXCEPT
                         !.heap[n].geo = s1.nextId]
                 ELSE s1
           s3 == LoadMaterials(s2, n, d.mats)
       IN LoadNodes(LoadNodes(Add(s3, root, n), n, d.kids), root, Tail(nodes))

\* gltf.scene of a finished load; its root is the first new object
LoadedModel(s, model) ==
  LoadNodes(Alloc(s, Obj("group", "loader")), s.nextId, model)

\* the nodes with child.isMesh, in the order of nodes
Meshes(h, nodes) == SelectSeq(nodes, LAMBDA n : h[n].kind = "mesh")

\* model.traverse: every mesh gets a new MeshPhysicalMaterial, made when
\* the traversal visits the mesh
Repaint(s, nodes) ==
  LET meshes == Meshes(s.heap, nodes)
      new == s.nextId .. (s.nextId + Len(meshes) - 1)
      visit(x) == CHOOSE i \in DOMAIN meshes : meshes[i] = x
  IN [s EXCEPT !.nextId = @ + Len(meshes),
               !.heap = [x \in DOMAIN @ \cup new |->
                           IF x \in new THEN Obj("material", "orch")
                           ELSE IF \E i \in DOMAIN meshes : meshes[i] = x
                           THEN [@[x] EXCEPT !.mats = <<s.nextId + visit(x) - 1>>]
                           ELSE @[x]]]

\* the stale branch of part_001 and part_002: for every mesh the loader
\* handed over, its geometry, then disposeMaterial of its materials
DisposeStale(s, nodes) ==
  LET meshes == Meshes(s.heap, nodes)
      refs(n) == (IF s.heap[n].geo # Null THEN <<s.heap[n].geo>> ELSE <<>>)
                 \o Flatten([i \in DOMAIN s.heap[n].mats |->
                               MaterialRefs(s.heap, s.heap[n].mats[i])])
  IN DisposeSeq(s, Flatten([i \in DOMAIN meshes |-> refs(meshes[i])]))

\* the part of both success callbacks that attaches the model
AttachModel(s, l, model) ==
  LET s1 == Repaint(s, Traverse(s.heap, model))
      s2 == Add(s1, s1.brainGroup, model)
  IN IF s2.threw THEN s2
     ELSE showLabels([s2 EXCEPT !.mesh = s1.brainGroup], l.brainConfig)

\* part_001 and part_002, success callback of load request l; model is
\* gltf.scene
onLoad(s, l, model) ==
  IF l.version # s.loadingVersion
  THEN DisposeStale(s, Traverse(s.heap, model))
  ELSE AttachModel(s, l, model)

\* part_000, success callback: a stale callback logs and returns
onLoadPart000(s, l, model) ==
  IF l.version # s.loadingVersion THEN s ELSE AttachModel(s, l, model)

\* part_000, part_001, part_002, error callback
onError(s, l) ==
  IF l.version # s.loadingVersion THEN s ELSE createFallbackBrain(s)

\* main.js, success and error callbacks
onLoadMain(s, l, model) == AttachModel(s, l, model)

onErrorMainIgnored(s, l) == s

onErrorMain(s, l) == createFallbackBrain(s)

\* ---------------------------------------------------------------- actions
\* the value of fired while no load callback has run
NoLoad ==
  [id |-> 0, version |-> 0, brainConfig |-> GeometryParams.brain,
   scene |-> Null]

\* before new ThreeJSScene(config), for the configurations tried
InitWith(configs) ==
  /\ rev \in Revisions
  /\ config \in configs         \* the argument the constructor will get
  /\ scene = Null /\ camera = Null /\ renderer = Null
  /\ labelRenderer = Null /\ lights = <<>> /\ mesh = Null
  /\ brainGroup = Null /\ labels = <<>> /\ animationId = Null
  /\ loadingVersion = 0 /\ resizeHandler = Null
  /\ heap = <<>> /\ nextId = 1 /\ dom = <<>> /\ listeners = {}
  /\ rafPending = {} /\ nextRaf = 1 /\ loads = {} /\ nextLoad = 1
  /\ win = 1 /\ threw = FALSE /\ pc = "uninitialized" /\ lastOp = "none"
  /\ fired = NoLoad /\ epoch = 1
  /\ nEvents = 0

Init == InitWith(InitConfigs)

Begin == [Cur EXCEPT !.threw = FALSE]

\* new ThreeJSScene(config)
Construct ==
  /\ pc = "uninitialized"
  /\ Commit(constructor(Begin, config))
  /\ pc' = "running" /\ lastOp' = "constructor" /\ epoch' = nextId
  /\ UNCHANGED <<fired, nEvents>>

\* instance.updateConfig(newConfig)
UpdateConfig(newConfig) ==
  /\ pc # "uninitialized"
  /\ nEvents < MaxEvents
  /\ Commit(updateConfig(Begin, newConfig))
  /\ pc' = "running" /\ lastOp' = "updateConfig" /\ epoch' = nextId
  /\ nEvents' = nEvents + 1
  /\ UNCHANGED fired

\* instance.dispose()
Dispose ==
  /\ pc # "uninitialized"
  /\ nEvents < MaxEvents
  /\ Commit(dispose(Begin))
  /\ pc' = "disposed" /\ lastOp' = "dispose"
  /\ nEvents' = nEvents + 1
  /\ UNCHANGED <<fired, epoch>>

\* the browser runs a pending requestAnimationFrame callback
RunFrame ==
  /\ \E id \in rafPending :
       Commit(animate([Begin EXCEPT !.rafPending = @ \ {id}]))
  /\ lastOp' = "frame" /\ nEvents' = nEvents + 1
  /\ UNCHANGED <<pc, fired, epoch>>

Frame == nEvents < MaxEvents /\ RunFrame

\* a 'resize' event is dispatched; the window has any of the sizes, the one
\* it had before included
Resize ==
  /\ pc # "uninitialized"
  /\ nEvents < MaxEvents
  /\ \E w \in DOMAIN WindowSizes :
       LET s == [Begin EXCEPT !.win = w]
       IN Commit(IF s.listeners # {} THEN resizeHandlerBody(s) ELSE s)
  /\ lastOp' = "resize" /\ nEvents' = nEvents + 1
  /\ UNCHANGED <<pc, fired, epoch>>

\* a load request of a versioned revision succeeds
LoadSuccess ==
  /\ Versioned(rev)
  /\ nEvents < MaxEvents
  /\ \E l \in loads, model \in Models :
       /\ LET s == LoadedModel([Begin EXCEPT !.loads = @ \ {l}], model)
          IN Commit(IF DisposesStale(rev) THEN onLoad(s, l, nextId)
                    ELSE onLoadPart000(s, l, nextId))
       /\ fired' = l
  /\ lastOp' = "loadSuccess" /\ nEvents' = nEvents + 1
  /\ UNCHANGED <<pc, epoch>>

\* a load request of a versioned revision fails
LoadError ==
  /\ Versioned(rev)
  /\ nEvents < MaxEvents
  /\ \E l \in loads :
       /\ Commit(onError([Begin EXCEPT !.loads = @ \ {l}], l))
       /\ fired' = l
  /\ lastOp' = "loadError" /\ nEvents' = nEvents + 1
  /\ UNCHANGED <<pc, epoch>>

\* a load request of main.js succeeds
LoadSuccessMain ==
  /\ rev = "main.js"
  /\ nEvents < MaxEvents
  /\ \E l \in loads, model \in Models :
       /\ Commit(onLoadMain(LoadedModel([Begin EXCEPT !.loads = @ \ {l}],
                                        model), l, nextId))
       /\ fired' = l
  /\ lastOp' = "loadSuccess" /\ nEvents' = nEvents + 1
  /\ UNCHANGED <<pc, epoch>>

\* a load request of main.js fails
LoadErrorMain ==
  /\ rev = "main.js"
  /\ nEvents < MaxEvents
  /\ \E l \in loads :
       /\ Commit(onErrorMain([Begin EXCEPT !.loads = @ \ {l}], l))
       /\ fired' = l
  /\ lastOp' = "loadError" /\ nEvents' = nEvents + 1
  /\ UNCHANGED <<pc, epoch>>

Next ==
  \/ Construct
  \/ \E newConfig \in Patches : UpdateConfig(newConfig)
  \/ Dispose
  \/ Frame
  \/ Resize
  \/ LoadSuccess
  \/ LoadError
  \/ LoadSuccessMain
  \/ LoadErrorMain

Spec == Init /\ [][Next]_vars

\* one instance is constructed and its animation loop runs
InitBuild == InitWith(BuildConfigs)

Tick == nEvents < MaxFrames /\ RunFrame

NextBuild == Construct \/ Tick

SpecBuild == InitBuild /\ [][NextBuild]_vars

\* one instance is constructed and left alone (no updateConfig, no dispose)
\* while its model is loading; the loader answers every request
LoadCallback == LoadSuccess \/ LoadError \/ LoadSuccessMain \/ LoadErrorMain

\* a frame while a load is pending leaves room for the loader's answer
TickLoad ==
  /\ nEvents < (IF loads = {} THEN MaxFrames ELSE MaxEvents - 1)
  /\ RunFrame

NextLoad == Construct \/ TickLoad \/ LoadCallback

\* the steps of LoadCallback, told by what they leave in lastOp and nEvents
LoadAnswer ==
  /\ loads # {} /\ nEvents < MaxEvents
  /\ lastOp' \in {"loadSuccess", "loadError"}
  /\ nEvents' = nEvents + 1

SpecLoad == Init /\ [][NextLoad]_vars /\ WF_<<lastOp, nEvents>>(LoadAnswer)

TypeOK == pc \in {"uninitialized", "running", "disposed"}

\* ------------------------------------------------------------ properties
\* objects created by the orchestrator itself, by kind
Made(kinds) ==
  {x \in DOMAIN heap : heap[x].by = "orch" /\ heap[x].kind \in kinds}

\* the element of x is connected to the document
InDocument(x) ==
  /\ x \in DOMAIN dom
  /\ \/ dom[x] = Root
     \/ dom[x] \in DOMAIN dom /\ dom[dom[x]] = Root

\* a load callback runs in this step for a request that was started before
\* the last updateConfig (the scene it was started under has been replaced)
LateCallback ==
  /\ lastOp' \in {"loadSuccess", "loadError"}
  /\ nEvents' = nEvents + 1
  /\ fired'.scene # scene

\* C1: in the versioned revisions a load callback that fires after an updateConfig made
\* since its load started leaves the mesh reference, the children of
\* brainGroup and the labels list unchanged, whatever geometry type the
\* updateConfig selected.
C1_LateCallbackLeavesState ==
  [][(Versioned(rev) /\ LateCallback) =>
       /\ mesh' = mesh
       /\ labels' = labels
       /\ brainGroup # Null => heap'[brainGroup].kids = heap[brainGroup].kids]_vars

\* the success callback of a revision with a version token runs in this
\* step and finds its version stale; gltf.scene is the first object the step
\* creates
StaleSuccess ==
  /\ Versioned(rev)
  /\ lastOp' = "loadSuccess"
  /\ nEvents' = nEvents + 1
  /\ fired'.version # loadingVersion

\* C2: a success callback that fires stale invokes dispose on the geometry,
\* on every material and on every texture map of those materials, of every
\* mesh of the loaded model, and adds nothing to brainGroup, to the scene or
\* to any other object.
C2_StaleSuccessDisposesModel ==
  [][StaleSuccess =>
       LET loaded == {n \in Descendants(heap', nextId) :
                        heap'[n].kind = "mesh"}
       IN /\ loaded # {}
          /\ \A n \in loaded :
               /\ heap'[n].geo # Null => heap'[heap'[n].geo].disposed >= 1
               /\ \A i \in DOMAIN heap'[n].mats :
                    /\ heap'[heap'[n].mats[i]].disposed >= 1
                    /\ \A m \in heap'[heap'[n].mats[i]].maps :
                         heap'[m[2]].disposed >= 1
          /\ \A x \in DOMAIN heap : heap'[x].kids = heap[x].kids
          /\ mesh' = mesh /\ labels' = labels]_vars

\* C3: over construction, updateConfig and dispose calls (no load callback
\* has run) no light, geometry, material or renderer created by the
\* orchestrator has dispose invoked more than once.
C3_DisposedAtMostOnce ==
  fired = NoLoad =>
    \A x \in Made({"light", "geometry", "material", "renderer"}) :
      heap[x].disposed <= 1

\* C4: when dispose() returns, every geometry, material, texture, light and
\* renderer the orchestrator created has had dispose invoked and no label
\* element is connected to the document.
C4_DisposeReleasesAll ==
  lastOp = "dispose" =>
    /\ \A x \in Made({"geometry", "material", "texture", "light", "renderer"}) :
         heap[x].disposed >= 1
    /\ \A x \in Made({"label"}) : ~InDocument(x)

\* C5: dispose() raises no error, whichever of animationId, renderer, mesh,
\* brainGroup and labelRenderer is null and whether or not dispose() ran
\* before.
C5_DisposeNeverThrows ==
  lastOp = "dispose" => ~threw

\* dispose() has returned on an instance without renderer, label overlay
\* and mesh
C5_Witness ==
  /\ lastOp = "dispose" /\ ~threw
  /\ renderer = Null /\ labelRenderer = Null /\ mesh = Null
  /\ brainGroup # Null

\* C6: from the return of dispose() until a later updateConfig no frame
\* callback is pending or runs: no draw call is issued and no rotation
\* changes.
C6_NoFrameAfterDispose ==
  [][(pc = "disposed" /\ pc' = "disposed") =>
       /\ rafPending = {}
       /\ lastOp' # "frame"
       /\ \A x \in DOMAIN heap :
            /\ heap'[x].draws = heap[x].draws
            /\ heap'[x].rot = heap[x].rot]_vars

\* dispose() has just cancelled the callback that animate() had requested
C6_Witness ==
  /\ pc = "disposed" /\ lastOp = "dispose"
  /\ animationId # Null /\ rafPending = {}
  /\ mesh # Null /\ heap[mesh].rot # <<FZero, FZero, FZero>>
  /\ nEvents < MaxEvents

\* C7: dispose() removes the resize handler the constructor registered, so
\* a window resize after dispose() changes no camera projection and no
\* renderer or label overlay size.
C7_NoResizeAfterDispose ==
  [][pc = "disposed" =>
       /\ resizeHandler \notin listeners
       /\ listeners = {}
       /\ (lastOp' = "resize" /\ nEvents' = nEvents + 1) =>
            \A x \in DOMAIN heap :
              /\ heap'[x].dims = heap[x].dims
              /\ heap'[x].projs = heap[x].projs]_vars

\* the window was resized after dispose() and the renderer kept its size
C7_Witness ==
  /\ pc = "disposed" /\ lastOp = "resize"
  /\ resizeHandler # Null /\ camera # Null /\ renderer # Null
  /\ heap[renderer].dims # WindowSizes[win]

\* C8: in a running state with camera and renderer, a resize event sets the
\* camera projection and the renderer size (and the label overlay size when
\* there is an overlay) to the new window dimensions.
C8_ResizeWhileRunning ==
  (lastOp = "resize" /\ pc = "running" /\ camera # Null /\ renderer # Null) =>
    /\ heap[camera].dims = WindowSizes[win]
    /\ heap[renderer].dims = WindowSizes[win]
    /\ labelRenderer # Null => heap[labelRenderer].dims = WindowSizes[win]

\* the instance is running: a frame callback is pending or its renderer has
\* not been disposed
Live ==
  \/ rafPending # {}
  \/ renderer # Null /\ heap[renderer].disposed = 0

\* C9: the lifecycle only goes uninitialized -> running, running -> running
\* and running -> disposed; once dispose() has been called no operation
\* makes the instance run again.
C9_DisposedIsFinal ==
  [][/\ <<pc, pc'>> \in {<<"uninitialized", "running">>,
                         <<"running", "running">>,
                         <<"running", "disposed">>,
                         <<"disposed", "disposed">>}
     /\ pc = "disposed" => ~Live']_vars

\* what the instance holds: the kinds of the scene's children, the lights
\* and the presence of mesh, brainGroup, camera, renderer and overlay
Shape(s) ==
  [scene     |-> {<<s.heap[k].kind, s.heap[k].tag>> : k \in Kids(s.heap, s.scene)},
   lights    |-> [i \in DOMAIN s.lights |-> s.heap[s.lights[i]].tag],
   mesh      |-> IF s.mesh = Null THEN "none" ELSE s.heap[s.mesh].kind,
   brain     |-> s.brainGroup # Null,
   camera    |-> IF s.camera = Null THEN "none" ELSE s.heap[s.camera].tag,
   renderer  |-> s.renderer # Null,
   overlay   |-> s.labelRenderer # Null]

\* new ThreeJSScene(config) for the configuration of the current state
Fresh ==
  constructor([Cur EXCEPT !.scene = Null, !.camera = Null, !.renderer = Null,
                          !.labelRenderer = Null, !.lights = <<>>,
                          !.mesh = Null, !.brainGroup = Null,
                          !.labels = <<>>, !.animationId = Null,
                          !.loadingVersion = 0, !.resizeHandler = Null,
                          !.heap = <<>>, !.nextId = 1, !.dom = <<>>,
                          !.listeners = {}, !.rafPending = {}, !.nextRaf = 1,
                          !.loads = {}, !.nextLoad = 1, !.threw = FALSE],
              config)

\* every object the instance refers to
Held ==
  ({scene, camera, renderer, labelRenderer, mesh, brainGroup}
     \cup {lights[i] : i \in DOMAIN lights}
     \cup {labels[i] : i \in DOMAIN labels}) \ {Null}

\* C10: after updateConfig(c) the scene contents, lights list, mesh,
\* brainGroup, camera, renderer and label overlay are those of a new
\* instance built from the merged configuration, and the instance refers to
\* no object built before the call.
C10_UpdateConfigRebuilds ==
  lastOp = "updateConfig" =>
    /\ Shape(Cur) = Shape(Fresh)
    /\ \A x \in Held : x >= epoch

\* updateConfig(newConfig) returns in this step, called on a running instance
UpdateOnRunning ==
  /\ pc = "running"
  /\ lastOp' = "updateConfig"
  /\ nEvents' = nEvents + 1

\* C11: after updateConfig({geometry: {type: T}}) on a running instance the
\* scene shows T: for 'brain' a new brain group in the new scene, otherwise a
\* new mesh in the new scene whose geometry is of type T, built from the
\* parameters configured for T before the call.
C11_UpdateSwitchesGeometry ==
  [][(UpdateOnRunning /\ DOMAIN config'.geometry = {"type"}) =>
       LET T == config'.geometry.type
       IN IF T = "brain"
          THEN /\ brainGroup' >= nextId
               /\ brainGroup' \in Kids(heap', scene')
          ELSE /\ mesh' >= nextId
               /\ mesh' \in Kids(heap', scene')
               /\ heap'[heap'[mesh'].geo].tag = T
               /\ heap'[heap'[mesh'].geo].args =
                    GeometryArgs(T, config.geometry[T])]_vars

\* C12: after updateConfig({animation: {speed: s}}) on a running instance
\* whose animation was enabled with auto-rotation, the animation loop keeps
\* running: a frame callback is pending and animationId names it.
C12_UpdateSpeedKeepsLoop ==
  [][(/\ UpdateOnRunning
      /\ Enabled(config.animation) /\ config.animation.autoRotate
      /\ DOMAIN config'.animation = {"speed"}) =>
       /\ rafPending' # {}
       /\ animationId' \in rafPending']_vars

\* the positional parameters of the geometry constructors of the library
ConstructorSignature ==
  [torusKnot   |-> <<"radius", "tube", "tubularSegments", "radialSegments",
                     "p", "q">>,
   box         |-> <<"width", "height", "depth", "widthSegments",
                     "heightSegments", "depthSegments">>,
   sphere      |-> <<"radius", "widthSegments", "heightSegments", "phiStart",
                     "phiLength", "thetaStart", "thetaLength">>,
   torus       |-> <<"radius", "tube", "radialSegments", "tubularSegments",
                     "arc">>,
   octahedron  |-> <<"radius", "detail">>,
   tetrahedron |-> <<"radius", "detail">>,
   icosahedron |-> <<"radius", "detail">>]

\* C13: constructing with geometry enabled and a primitive type invokes
\* exactly one geometry constructor, that of the configured type, with the
\* type's configured parameters in the constructor's positional order.
C13_OneGeometryConstructor ==
  (/\ pc = "running"
   /\ Enabled(config.geometry)
   /\ config.geometry.type \in PrimitiveTypes) =>
    LET type == config.geometry.type
        sig == ConstructorSignature[type]
    IN /\ Cardinality(Made({"geometry"})) = 1
       /\ \A g \in Made({"geometry"}) :
            /\ heap[g].tag = type
            /\ heap[g].args =
                 [i \in DOMAIN sig |-> config.geometry[type][sig[i]]]

\* a torus knot was built from radius 200, tube 60, 100/16 segments, p 2, q 3
C13_Witness ==
  /\ lastOp = "constructor"
  /\ config.geometry.type = "torusKnot"
  /\ \E g \in Made({"geometry"}) : heap[g].args = <<200, 60, 100, 16, 2, 3>>

\* C14: constructing with type 'torusKnot', geometry and animation enabled,
\* creates exactly one mesh, adds it to the scene, stores it as the mesh
\* reference and registers exactly one animation callback.
C14_OneMeshOneCallback ==
  (/\ lastOp = "constructor"
   /\ config.geometry.type = "torusKnot"
   /\ Enabled(config.geometry) /\ Enabled(config.animation)) =>
    /\ Made({"mesh"}) = {mesh}
    /\ {k \in Kids(heap, scene) : heap[k].kind = "mesh"} = {mesh}
    /\ nextRaf = 2 /\ rafPending = {1} /\ animationId = 1

\* the default torus knot has been constructed with a running animation
C14_Witness ==
  /\ lastOp = "constructor" /\ config = TorusKnotConfig
  /\ mesh # Null /\ mesh \in Kids(heap, scene)
  /\ heap[heap[mesh].geo].args = <<200, 60, 100, 16, 2, 3>>
  /\ rafPending = {1}

\* the lights the lighting section enables
EnabledLights ==
  {k \in DOMAIN config.lighting \ {"enabled"} : Enabled(config.lighting[k])}

\* C15: with an unrecognised geometry type the construction creates no
\* geometry, material or mesh, adds no mesh to the scene, raises no error
\* and goes on to build the lights and the renderer.
C15_UnknownTypeSkipped ==
  (/\ lastOp = "constructor"
   /\ Enabled(config.geometry)
   /\ config.geometry.type \notin PrimitiveTypes \cup {"brain"}) =>
    /\ ~threw
    /\ Made({"geometry", "material", "mesh", "group"}) = {}
    /\ mesh = Null /\ brainGroup = Null
    /\ Kids(heap, scene) \subseteq Made({"light", "target"})
    /\ Enabled(config.lighting) =>
         Len(lights) = Cardinality(EnabledLights)
    /\ Enabled(config.renderer) => renderer # Null

\* type 'cube' was configured: three lights and the renderer exist, no mesh
C15_Witness ==
  /\ lastOp = "constructor" /\ config.geometry.type = "cube"
  /\ mesh = Null /\ Len(lights) = 3 /\ renderer # Null

\* ------------------------------------------------------------------- C16
\* the error callback of a load request whose version is the current one
\* runs (versioned revisions)
CurrentLoadFails ==
  /\ Versioned(rev)
  /\ lastOp' = "loadError" /\ nEvents' = nEvents + 1
  /\ fired'.version = loadingVersion

\* the parts of the procedural brain created by the step
NewFallbackParts ==
  {x \in DOMAIN heap' \ DOMAIN heap :
     /\ heap'[x].kind = "mesh"
     /\ heap'[x].tag \in FallbackTags(rev)}

\* C16: when the error callback of the current (non-stale) load fires, the
\* procedural fallback brain is built exactly once into the current
\* brainGroup, the mesh reference is set to that group, and no further load
\* request is issued.
C16_ErrorBuildsFallbackOnce ==
  [][CurrentLoadFails =>
       /\ ~threw'
       /\ brainGroup' = brainGroup /\ brainGroup # Null
       /\ Cardinality(NewFallbackParts) = FallbackParts(rev)
       /\ NewFallbackParts \subseteq Descendants(heap', brainGroup)
       /\ mesh' = brainGroup
       /\ loads' = loads \ {fired'}
       /\ nextLoad' = nextLoad]_vars

\* ------------------------------------------------------------------- C17
\* the brain group holds the loaded model or parts of the procedural brain
BrainContent ==
  {x \in Kids(heap, brainGroup) :
     \/ heap[x].by = "loader"
     \/ /\ heap[x].kind = "mesh"
        /\ heap[x].tag \in FallbackTags(rev)}

BrainShown ==
  /\ mesh # Null /\ mesh = brainGroup
  /\ scene # Null /\ heap[scene].disposed = 0
  /\ brainGroup \in Kids(heap, scene)
  /\ BrainContent # {}

\* C17: if a brain load is started, neither updateConfig nor dispose is called
\* afterwards and the loader eventually invokes the success or the error
\* callback, then eventually the mesh reference is non-null and refers to
\* the brainGroup in the live scene, which contains the loaded model or the
\* procedural fallback.
C17_LoadEventuallyShown == (loads # {}) ~> BrainShown

C17_Witness ==
  /\ lastOp = "loadError" /\ fired # NoLoad /\ loads = {}
  /\ brainGroup # Null /\ BrainShown

\* ------------------------------------------------------------------- C18
\* the browser runs the frame callback: one execution of animate
FrameStep == lastOp' = "frame" /\ nEvents' = nEvents + 1

\* the objects whose render count differs after the step
Drawn == {x \in DOMAIN heap : heap'[x].draws # heap[x].draws}

\* C18: each execution of the per-frame update issues exactly one renderer
\* draw call when renderer, scene and camera are all non-null, followed by
\* exactly one render of the label overlay if and only if a label renderer
\* exists; when any of the three is null it issues no draw call and raises
\* no error.
C18_OneDrawPerFrame ==
  [][FrameStep =>
       /\ ~threw'
       /\ DOMAIN heap' = DOMAIN heap
       /\ IF renderer # Null /\ scene # Null /\ camera # Null
          THEN /\ heap'[renderer].draws = heap[renderer].draws + 1
               /\ labelRenderer # Null =>
                    heap'[labelRenderer].draws = heap[labelRenderer].draws + 1
               /\ Drawn = {renderer, labelRenderer} \ {Null}
          ELSE Drawn = {}]_vars

C18_Witness ==
  /\ lastOp = "frame" /\ ~threw
  /\ renderer # Null /\ scene # Null /\ camera # Null
  /\ labelRenderer # Null
  /\ heap[renderer].draws >= 2 /\ heap[labelRenderer].draws = 1

\* a frame ran while there was no renderer
C18_WitnessNoRenderer ==
  lastOp = "frame" /\ ~threw /\ renderer = Null /\ scene # Null

\* ------------------------------------------------------------------- C19
\* at most one frame callback is pending, and animationId is its id
OnePending ==
  /\ Cardinality(rafPending) <= 1
  /\ rafPending # {} => rafPending = {animationId}

\* C19: while animation is enabled each execution of a frame callback
\* registers exactly one successor callback, and after any sequence of
\* construction, frame executions and updateConfig calls at most one
\* animation-frame callback is pending, with animationId holding its id.
C19_OneCallbackPending ==
  [][/\ OnePending'
     /\ FrameStep /\ Enabled(config.animation) =>
          /\ nextRaf' = nextRaf + 1
          /\ rafPending' = {nextRaf}
          /\ animationId' = nextRaf]_vars

\* a frame ran after an updateConfig and left its successor pending
C19_Witness ==
  /\ lastOp = "frame" /\ epoch > 1 /\ Enabled(config.animation)
  /\ nextRaf >= 4 /\ rafPending = {animationId} /\ animationId = nextRaf - 1

\* ------------------------------------------------------------------- C20
\* the objects whose rotation differs after the step
Rotated == {x \in DOMAIN heap : heap'[x].rot # heap[x].rot}

\* one execution of the per-frame update: x * speed, y * speed and z * speed
\* are added to the rotation of the mesh, in double arithmetic
FrameRotates ==
  FrameStep =>
    /\ ~threw'
    /\ DOMAIN heap' = DOMAIN heap
    /\ IF config.animation.autoRotate /\ mesh # Null
       THEN /\ \A i \in 1..3 :
                 heap'[mesh].rot[i] =
                   FAdd(heap[mesh].rot[i],
                        FMul(config.animation.rotation[i],
                             config.animation.speed))
            /\ Rotated \subseteq {mesh}
       ELSE Rotated = {}

\* executions of animate so far: the constructor's and the frames
Executions == nextRaf - 1

\* n times delta times speed, in either order of evaluation
NTimes(n, delta, speed) ==
  {FMul(FMul(FInt(n), delta), speed), FMul(FInt(n), FMul(delta, speed))}

\* every axis of the mesh has changed by n times its delta times speed
ClosedForm ==
  (pc = "running" /\ Enabled(config.animation) /\ config.animation.autoRotate
                  /\ mesh # Null) =>
    \A i \in 1..3 :
      heap[mesh].rot[i] \in NTimes(Executions, config.animation.rotation[i],
                                   config.animation.speed)

\* C20 as stated: each execution of the per-frame update with autoRotate true
\* and a non-null mesh adds exactly x * speed, y * speed and z * speed to the
\* rotation of the mesh, so after n executions each axis has changed by
\* n times its delta times speed; with autoRotate false or a null mesh the
\* rotation is unchanged and no error is raised.
C20_RotationIsNTimesDelta == [][FrameRotates]_vars /\ []ClosedForm

\* C20, amended: each execution of the per-frame update with autoRotate true
\* and a non-null mesh adds the products x * speed, y * speed and z * speed
\* to the rotation of the mesh, each product and each sum rounded to a
\* double; with autoRotate false or a null mesh the rotation is unchanged and
\* no error is raised.
C20_RotationPerFrame == [][FrameRotates]_vars

\* the sixth execution with the rotation of config.js: the sum of six times
\* 0.005 is not six times 0.005
C20_Witness ==
  /\ lastOp = "frame" /\ mesh # Null /\ config.animation.autoRotate
  /\ config.animation.rotation[2] = F0_005 /\ config.animation.speed = F1_0
  /\ Executions = 6
  /\ heap[mesh].rot[2] \notin NTimes(6, F0_005, F1_0)

\* ------------------------------------------------------------------- C21
\* every object of A was created before every object of B (identities are
\* handed out in creation order)
Before(A, B) == \A a \in A, b \in B : a < b

\* what createGeometry creates during the construction
BuiltGeometry == Made({"geometry", "material", "mesh", "group"})

BuiltLights == Made({"light", "target"})

Holder(x) == IF x = Null THEN {} ELSE {x}

\* C21: during construction the components are created in a fixed order:
\* the texture loader before any geometry, the scene before the camera, the
\* camera before the geometry, the geometry before the lights and the lights
\* before the renderer; the animation loop starts and the resize listener is
\* registered only after all of them.
C21_ConstructionOrder ==
  (pc = "running" /\ ~threw) =>
    /\ Made({"textureLoader"}) # {}
    /\ Before(Made({"textureLoader"}), BuiltGeometry)
    /\ scene # Null
    /\ Before({scene}, Holder(camera))
    /\ Before(Holder(camera), BuiltGeometry)
    /\ Before(BuiltGeometry, BuiltLights)
    /\ Before(BuiltLights, Holder(renderer))
    /\ resizeHandler # Null
    /\ Before({scene} \cup Holder(camera) \cup BuiltGeometry \cup BuiltLights
                \cup Holder(renderer), {resizeHandler})
    /\ resizeHandler \in listeners
    \* every execution of animate, the constructor's included, found the
    \* renderer and the mesh in place
    /\ (Enabled(config.animation) /\ renderer # Null /\ camera # Null) =>
         heap[renderer].draws = Executions
    /\ (Enabled(config.animation) /\ config.animation.autoRotate
          /\ mesh # Null /\ Executions = 1) =>
         heap[mesh].rot = Scale(config.animation.rotation,
                                config.animation.speed)

C21_Witness ==
  /\ lastOp = "constructor" /\ ~threw
  /\ camera # Null /\ renderer # Null /\ mesh # Null /\ lights # <<>>
  /\ BuiltGeometry # {} /\ BuiltLights # {}
  /\ scene < camera /\ camera < mesh /\ mesh < lights[1]
  /\ lights[Len(lights)] < renderer /\ renderer < resizeHandler
  /\ heap[renderer].draws = 1 /\ rafPending = {1}

\* ------------------------------------------------------------------- C22
\* the 'resize' event is dispatched while the handler is registered
HandlerRuns ==
  lastOp' = "resize" /\ nEvents' = nEvents + 1 /\ listeners # {}

Neg(q) == <<-q[1], q[2]>>

\* q is the quotient of n by d
IsQuotient(q, n, d) == q[2] > 0 /\ q[1] * d = q[2] * n

\* the bounds b of an orthographic camera fit the window W x H: the height
\* is the configured one (half the window height when that is 0), the
\* width the configured one (half the window width when that is 0) times
\* W / H, both centred
BoundsFit(b, o, W, H) ==
  LET span == Abs(o.right - o.left)
      rise == Abs(o.top - o.bottom)
  IN /\ b[1] = Neg(b[2]) /\ b[4] = Neg(b[3])
     /\ IF span # 0 THEN IsQuotient(b[2], span * W, H)
        ELSE IsQuotient(b[2], W * W, 2 * H)
     /\ IF rise # 0 THEN IsQuotient(b[3], rise, 1)
        ELSE IsQuotient(b[3], H, 2)

\* C22: the resize handler, when camera and renderer are both non-null, sets
\* a perspective camera's aspect to innerWidth / innerHeight (or recomputes an
\* orthographic camera's bounds), updates the projection matrix and sets the
\* renderer size to (innerWidth, innerHeight); when the camera or the
\* renderer is null it changes nothing and raises no error.
C22_ResizeHandler ==
  [][HandlerRuns =>
       LET W == WindowSizes[win'][1]
           H == WindowSizes[win'][2]
       IN /\ ~threw'
          /\ IF camera # Null /\ renderer # Null
             THEN /\ IF heap[camera].tag = "perspective"
                     THEN /\ Len(heap'[camera].args) = 1
                          /\ IsQuotient(heap'[camera].args[1], W, H)
                     ELSE BoundsFit(heap'[camera].args,
                                    config.camera.orthographic, W, H)
                  /\ heap'[camera].projs = heap[camera].projs + 1
                  /\ heap'[renderer].dims = <<W, H>>
             ELSE heap' = heap /\ dom' = dom]_vars

\* the orthographic camera of a window of 1600 x 900 with bounds of no width:
\* right = 800 * 1600 / 900
C22_Witness ==
  /\ lastOp = "resize" /\ ~threw /\ listeners # {}
  /\ camera # Null /\ renderer # Null
  /\ heap[camera].tag = "orthographic"
  /\ heap[camera].args[2] = <<12800, 9>> /\ heap[camera].args[3] = <<2000, 1>>
  /\ heap[camera].projs >= 1
  /\ heap[renderer].dims = <<1600, 900>>

\* the handler ran without a camera and without a renderer
C22_WitnessNeither ==
  /\ lastOp = "resize" /\ ~threw /\ listeners # {}
  /\ camera = Null /\ renderer = Null

\* the handler ran without a camera: the renderer kept its size
C22_WitnessNoCamera ==
  /\ lastOp = "resize" /\ ~threw /\ listeners # {}
  /\ camera = Null /\ renderer # Null
  /\ heap[renderer].dims # WindowSizes[win]

\* the handler ran without a renderer: the camera kept its projection
\* (NoRendererConfig, whose dispose() keeps the resize listener)
C22_WitnessNoRenderer ==
  /\ lastOp = "resize" /\ ~threw /\ listeners # {}
  /\ camera # Null /\ renderer = Null
  /\ heap[camera].projs = 0 /\ heap[camera].dims # WindowSizes[win]

\* the handler ran twice for a window of the same size
C22_WitnessSameSize ==
  /\ lastOp = "resize" /\ ~threw /\ listeners # {} /\ nEvents = 2
  /\ camera # Null /\ renderer # Null
  /\ heap[camera].projs = 2 /\ win = 1
  /\ heap[renderer].dims = WindowSizes[1]

\* ------------------------------------------------------------------- C23
\* a part of the procedural brain
IsFallbackPart(h, x) ==
  /\ h[x].kind = "mesh" /\ h[x].by = "orch"
  /\ h[x].tag \in FallbackTags(rev)

\* the load results in scene sc: the roots of loaded models, and the brain
\* groups that hold parts of a procedural brain
LoadResults(h, sc) ==
  IF sc = Null THEN {}
  ELSE {x \in Descendants(h, sc) : h[x].kind = "group" /\ h[x].by = "loader"}
       \cup {g \in Kids(h, sc) :
                \E x \in Descendants(h, g) : IsFallbackPart(h, x)}

\* a load callback runs
LoadCallbackRuns ==
  lastOp' \in {"loadSuccess", "loadError"} /\ nEvents' = nEvents + 1

\* C23: under any interleaving of updateConfig calls and load completions the
\* live scene (the scene of the most recent init) contains at most one load
\* result, a loaded model or a fallback brain, and it comes from the most
\* recently started load request; the result of an older request is never
\* attached to the live scene.
C23_OnlyNewestLoadAttached ==
  /\ [](Cardinality(LoadResults(heap, scene)) <= 1)
  /\ [][(LoadCallbackRuns
           /\ LoadResults(heap', scene') # LoadResults(heap, scene)) =>
          /\ fired'.id = nextLoad - 1
          /\ fired'.scene = scene
          /\ LoadResults(heap, scene) = {}]_vars

\* ------------------------------------------------------------------- C24
\* the callback of the most recently started load request runs (in the
\* versioned revisions it also carries the current version)
CurrentLoadCompletes ==
  /\ lastOp' \in {"loadSuccess", "loadError"} /\ nEvents' = nEvents + 1
  /\ fired'.id = nextLoad - 1
  /\ Versioned(rev) => fired'.version = loadingVersion

\* showLabels of the request, which the configuration still agrees with
ShowLabels(b) ==
  /\ fired'.brainConfig.showLabels = b
  /\ "brain" \in DOMAIN config.geometry =>
       config.geometry.brain.showLabels = b

\* the marker meshes created by the step
NewMarkers ==
  {x \in DOMAIN heap' \ DOMAIN heap :
     /\ heap'[x].kind = "mesh" /\ heap'[x].by = "orch"
     /\ ~IsFallbackPart(heap', x)}

\* C24: when the current model load completes (by success or by failure)
\* with showLabels true, the labels list holds exactly one label per
\* configured brain region, in region order, each at its region's position,
\* and one marker mesh per region is added to the brainGroup; with showLabels
\* false the labels list stays empty and no label overlay is created.
C24_OneLabelPerRegion ==
  [][CurrentLoadCompletes =>
       /\ ShowLabels(TRUE) =>
            LET n == fired'.brainConfig.regions
            IN /\ Len(labels') = n
               /\ \A i \in 1..n :
                    /\ heap'[labels'[i]].kind = "label"
                    /\ heap'[labels'[i]].tag = ToString(i)
                    /\ labels'[i] \in Kids(heap', brainGroup')
               /\ Cardinality(NewMarkers) = n
               /\ NewMarkers \subseteq Kids(heap', brainGroup')
               /\ \A i \in 1..n : \E x \in NewMarkers :
                    heap'[x].tag = ToString(i)
       /\ ShowLabels(FALSE) =>
            /\ labels' = <<>>
            /\ \A x \in DOMAIN heap' \ DOMAIN heap :
                 heap'[x].kind # "labelRenderer"]_vars

\* ------------------------------------------------------------------- C25
\* a load callback of a versioned revision runs on a disposed instance
\* (dispose was the last of constructor, updateConfig and dispose)
CallbackAfterDispose ==
  /\ Versioned(rev) /\ pc = "disposed"
  /\ lastOp' \in {"loadSuccess", "loadError"} /\ nEvents' = nEvents + 1

\* C25: after dispose() has been called (with no later updateConfig) a
\* model-load success or error callback that fires late changes nothing: it
\* does not set the mesh reference, adds no object to the brainGroup, pushes
\* no label and creates or attaches no DOM element.
C25_CallbackAfterDisposeInert ==
  [][CallbackAfterDispose =>
       /\ mesh' = mesh
       /\ brainGroup' = brainGroup
       /\ brainGroup # Null => heap'[brainGroup].kids = heap[brainGroup].kids
       /\ labels' = labels
       /\ dom' = dom
       /\ \A x \in DOMAIN heap' \ DOMAIN heap :
            heap'[x].kind \notin {"label", "labelRenderer"}]_vars

\* ------------------------------------------------------------------- C26
\* the renderers whose render was invoked by the step
RenderersDrawn ==
  {x \in DOMAIN heap : heap[x].kind = "renderer"
                         /\ heap'[x].draws # heap[x].draws}

\* C26: no draw call is ever issued on a renderer whose dispose has already
\* been invoked, under any sequence of construction, updateConfig (also with
\* a renderer section that is disabled or lacks the enabled flag), frame
\* executions and dispose.  No operation draws before it disposes, so a
\* renderer that a step draws on and leaves disposed was disposed first.
C26_NoDrawOnDisposedRenderer ==
  [][\A x \in RenderersDrawn : heap'[x].disposed = 0]_vars

\* ------------------------------------------------------------------- C27
\* x was created since the most recent constructor or updateConfig began
\* (by init or by a load callback) and is in the current scene
CurrentObject(x) ==
  /\ x >= epoch
  /\ scene # Null /\ x \in Descendants(heap, scene)

\* C27: in every running state the mesh reference is either null or an
\* object that was created by the most recent init (or by its load callback)
\* and is contained in the current scene; in particular after updateConfig
\* to a configuration whose geometry is disabled, unrecognized or a brain
\* model still loading, the per-frame update never rotates an object of the
\* previous scene.
C27_MeshIsCurrent ==
  /\ [](pc = "running" /\ mesh # Null => CurrentObject(mesh))
  /\ [][FrameStep => \A x \in Rotated : scene # Null
                                        /\ x \in Descendants(heap, scene)]_vars

\* ------------------------------------------------------------------- C28
\* C28: whenever the labels list is non-empty in a running state, also after
\* a brain scene has been reconfigured with updateConfig and its new load has
\* completed, the DOM element of the label overlay is attached to the
\* container element (or the document body).
C28_OverlayAttached ==
  (pc = "running" /\ labels # <<>>) =>
    /\ labelRenderer # Null
    /\ labelRenderer \in DOMAIN dom /\ dom[labelRenderer] = Root

\* ------------------------------------------------------------------- C29
\* the renderer canvases attached to the container element or the body
AttachedCanvases ==
  {x \in DOMAIN dom : heap[x].kind = "renderer" /\ dom[x] = Root}

\* C29: after any sequence of construction and updateConfig calls at most
\* one renderer canvas created by the orchestrator is attached to the
\* container element (or the document body), and it is the canvas of the
\* current renderer.
C29_OneCanvasAttached ==
  pc = "running" =>
    /\ Cardinality(AttachedCanvases) <= 1
    /\ AttachedCanvases \subseteq {renderer}

\* ------------------------------------------------------------------- C30
\* C30: when animation.enabled is false, construction and updateConfig
\* register no animation-frame callback and issue no draw call, and no later
\* event (resize, load completion) issues one either: the renderer's render
\* is never invoked for that configuration.
C30_StillSceneNeverRenders ==
  [][(pc' # "uninitialized" /\ ~Enabled(config'.animation)) =>
       /\ nextRaf' = nextRaf
       /\ rafPending' = {}
       /\ Drawn = {}
       /\ \A x \in DOMAIN heap' \ DOMAIN heap : heap'[x].draws = 0]_vars

\* the window was resized under a configuration without animation: the
\* renderer has its new size and has never rendered
C30_Witness ==
  /\ pc = "running" /\ lastOp = "resize" /\ listeners # {}
  /\ "enabled" \in DOMAIN config.animation /\ ~config.animation.enabled
  /\ renderer # Null /\ camera # Null
  /\ heap[renderer].dims = <<1600, 900>>
  /\ heap[renderer].draws = 0 /\ rafPending = {} /\ nextRaf = 1

\* a load completed under a configuration whose animation section lost its
\* enabled flag: the renderer of the rebuilt scene has never rendered
C30_WitnessLoad ==
  /\ pc = "running" /\ lastOp \in {"loadSuccess", "loadError"}
  /\ ~Enabled(config.animation) /\ renderer # Null
  /\ heap[renderer].draws = 0 /\ rafPending = {}

====
